---- MODULE Spec2Model ----
(***************************************************************************)
(* zod-fast-check: the schema-to-arbitrary compiler (_ZodFastCheck), its   *)
(* override registry, the per-kind arbitrary builders and the success-rate *)
(* filter (throwIfSuccessRateBelow).                                       *)
(*                                                                         *)
(* Zod schemas are objects with identity: a schema is named by an id and   *)
(* Schemas[id] is its _def.  fast-check arbitraries are trees of           *)
(* combinator nodes [k, kids, ...]; Yields(arb) is the set of values an    *)
(* arbitrary can produce, drawn from the small sample domains below.       *)
(* JavaScript numbers are fixed-point integers counting thousandths        *)
(* (Unit == 1000), so that the 0.001 shift of ZodNumber is one unit.       *)
(***************************************************************************)
EXTENDS Integers, Sequences, FiniteSets, TLC

VARIABLES
    instances,  \* the _ZodFastCheck objects, in creation order: each its overrides Map
    derivations,\* the override() calls made, in order: call number n returned
                \* instance n + 1
    call,       \* the last public call: [op, zfc, schema, arbitrary, returned]
    counters,   \* one entry per arbitrary the call has built: route of a filter
                \* node |-> [successful, total] of its closure
    runs,       \* property run |-> candidates it has had evaluated
    outcome     \* what the last candidate evaluation / draw did

vars == <<instances, derivations, call, counters, runs, outcome>>

----------------------------------------------------------------------------
(* Bounds of the model *)

MaxInstances == 3    \* _ZodFastCheck objects alive at once
MaxStrLen == 2       \* longest string the engine's fc.string() sample holds
MaxSample == 3       \* the engine's integer / double / bigint sample is -MaxSample..MaxSample
MaxElems == 1        \* longest collection the engine's sample holds
MaxTrials == 1100    \* candidate evaluations of one filter closure
MaxSuccesses == 12   \* accepted candidates of one filter closure
MaxLater == 2        \* candidates of the second arbitrary, and of the second property run
SafeLimit == 2000000 \* stands for Number.MAX_SAFE_INTEGER (in thousandths)

(* Program constants *)

MIN_RUNS == 1000
RATE_PERCENT == 1    \* MIN_SUCCESS_RATE = 0.01
Unit == 1000         \* 1 / 0.001: numbers count thousandths
MaxCollection == 10  \* Math.min(maxLength ?? 10, 10)

----------------------------------------------------------------------------
(* JavaScript values: [t |-> typeof-like tag, v |-> payload] *)

Nil == [nil |-> TRUE]                      \* null / undefined of an optional field
Some(x) == [value |-> x]

Undefined == [t |-> "undefined", v |-> 0]
Null == [t |-> "null", v |-> 0]
NaN == [t |-> "nan", v |-> 0]
Infinity == [t |-> "infinity", v |-> 0]
Bool(b) == [t |-> "boolean", v |-> b]
Num(n) == [t |-> "number", v |-> n]        \* n thousandths
BigI(n) == [t |-> "bigint", v |-> n]
Str(s) == [t |-> "string", v |-> s]        \* s a sequence of characters
Sym(s) == [t |-> "symbol", v |-> s]
DateV(n) == [t |-> "date", v |-> n]
Arr(s) == [t |-> "array", v |-> s]
Obj(pairs) == [t |-> "object", v |-> pairs] \* sequence of <<key, value>>
MapV(pairs) == [t |-> "map", v |-> pairs]
SetV(s) == [t |-> "set", v |-> s]
Fn(r) == [t |-> "function", v |-> <<r>>]   \* () => r
Prom(r) == [t |-> "promise", v |-> <<r>>]  \* Promise.resolve(r)
Frozen(x) == x                             \* Object.freeze returns its argument

RECURSIVE SeqsOver(_, _)
SeqsOver(S, n) ==
    IF n = 0 THEN {<<>>}
    ELSE {<<x>> \o s : x \in S, s \in SeqsOver(S, n - 1)}

SeqsBetween(S, lo, hi) == UNION {SeqsOver(S, n) : n \in lo..hi}

Min2(a, b) == IF a < b THEN a ELSE b
Max2(a, b) == IF a > b THEN a ELSE b
CeilDiv(a, b) == -((-a) \div b)            \* Math.ceil(a / b), b > 0
FloorDiv(a, b) == a \div b                 \* Math.floor(a / b), b > 0

----------------------------------------------------------------------------
(* Strings are sequences of characters *)

Alphabet == {"a", " ", "1"}                \* what the engine's fc.string() sample draws from
Digits == <<"0", "1", "2", "3", "4", "5", "6", "7", "8", "9">>
Whitespace == {" "}
HexChars == {"0", "1", "2", "3", "4", "5", "6", "7", "8", "9", "a", "b", "c", "d", "e", "f"}

RECURSIVE Rep(_, _)
Rep(c, n) == IF n = 0 THEN <<>> ELSE <<c>> \o Rep(c, n - 1)

StartsWith(s, p) == Len(s) >= Len(p) /\ SubSeq(s, 1, Len(p)) = p
EndsWith(s, p) == Len(s) >= Len(p) /\ SubSeq(s, Len(s) - Len(p) + 1, Len(s)) = p

RECURSIVE TrimStart(_)
TrimStart(s) == IF s # <<>> /\ Head(s) \in Whitespace THEN TrimStart(Tail(s)) ELSE s
RECURSIVE TrimEnd(_)
TrimEnd(s) ==
    IF s # <<>> /\ s[Len(s)] \in Whitespace THEN TrimEnd(SubSeq(s, 1, Len(s) - 1)) ELSE s
Trim(s) == TrimEnd(TrimStart(s))           \* String.prototype.trim

RECURSIVE NatDigits(_)
NatDigits(n) == IF n < 10 THEN <<Digits[n + 1]>> ELSE NatDigits(n \div 10) \o <<Digits[(n % 10) + 1]>>

RECURSIVE StripZeros(_)
StripZeros(s) == IF s # <<>> /\ s[Len(s)] = "0" THEN StripZeros(SubSeq(s, 1, Len(s) - 1)) ELSE s

Pad3(n) == Rep("0", 3 - Len(NatDigits(n))) \o NatDigits(n)

\* String(x) of a number counting thousandths
NumberToString(n) ==
    LET a == IF n < 0 THEN -n ELSE n
        sign == IF n < 0 THEN <<"-">> ELSE <<>>
        frac == StripZeros(Pad3(a % Unit))
    IN  sign \o NatDigits(a \div Unit) \o (IF frac = <<>> THEN <<>> ELSE <<".">> \o frac)

\* /^[0-9a-f]{8}-[0-9a-f]{4}-[0-9a-f]{4}-[0-9a-f]{4}-[0-9a-f]{12}$/
IsUuid(s) ==
    /\ Len(s) = 36
    /\ \A i \in 1..36 : IF i \in {9, 14, 19, 24} THEN s[i] = "-" ELSE s[i] \in HexChars

\* /^\d+$/
IsDigits(s) == s # <<>> /\ \A i \in 1..Len(s) : \E d \in 1..10 : s[i] = Digits[d]

\* /\s/
HasWhitespace(s) == \E i \in 1..Len(s) : s[i] \in Whitespace

RegexTest(pattern, s) ==
    CASE pattern = "^\\d+$" -> IsDigits(s)
      [] pattern = "\\s" -> HasWhitespace(s)
      [] OTHER -> FALSE

UuidSample == Rep("0", 8) \o <<"-">> \o Rep("1", 4) \o <<"-">> \o Rep("4", 4) \o <<"-">>
              \o Rep("a", 4) \o <<"-">> \o Rep("f", 12)
EmailSample == <<"a", "@", "a", ".", "a", "a">>
UrlSample == <<"h", "t", "t", "p", ":", "/", "/", "a", ".", "a", "a">>
CuidSample == <<"c">> \o Rep("0", 8) \o Rep("1", 4) \o Rep("a", 4) \o Rep("f", 8)
DatetimeSample == <<"1", "9", "7", "0", "-", "0", "1", "-", "0", "1", "T",
                    "0", "0", ":", "0", "0", ":", "0", "0", ".", "0", "0", "0", "Z">>

\* the check kinds of ZodString that ask for a format, and what satisfies them
FormatOk(kind, s) ==
    CASE kind = "uuid" -> IsUuid(s)
      [] kind = "email" -> s = EmailSample
      [] kind = "url" -> s = UrlSample
      [] kind = "cuid" -> s = CuidSample
      [] kind = "datetime" -> s = DatetimeSample
      [] OTHER -> FALSE

----------------------------------------------------------------------------
(* Zod schemas.  A schema object is named by its id; Schemas[id] is its     *)
(* _def.  Two ids with equal _defs are two separately constructed,          *)
(* structurally identical schema objects.  The schemas are those of the     *)
(* test suite with their numbers scaled down to the sample domains.         *)

Ck(kind, value, inclusive, text) ==
    [kind |-> kind, value |-> value, inclusive |-> inclusive, text |-> text]
CkKind(kind) == Ck(kind, 0, TRUE, <<>>)
CkNum(kind, n) == Ck(kind, n, TRUE, <<>>)
CkExcl(kind, n) == Ck(kind, n, FALSE, <<>>)
CkText(kind, s) == Ck(kind, 0, TRUE, s)
CkRegex(pattern) == Ck("regex", 0, TRUE, <<pattern>>)

ZString(checks) == [typeName |-> "ZodString", checks |-> checks]
ZNumber(checks) == [typeName |-> "ZodNumber", checks |-> checks]
ZBigInt(checks) == [typeName |-> "ZodBigInt", checks |-> checks]
ZDate(checks) == [typeName |-> "ZodDate", checks |-> checks]
ZKind(typeName) == [typeName |-> typeName]
ZLiteral(value) == [typeName |-> "ZodLiteral", value |-> value]
ZEnum(values) == [typeName |-> "ZodEnum", values |-> values]
ZNativeEnum(entries) == [typeName |-> "ZodNativeEnum", values |-> entries]
ZArray(type, minLength, maxLength) ==
    [typeName |-> "ZodArray", type |-> type, minLength |-> minLength, maxLength |-> maxLength]
ZSet(valueType, minSize, maxSize) ==
    [typeName |-> "ZodSet", valueType |-> valueType, minSize |-> minSize, maxSize |-> maxSize]
ZObject(shape) == [typeName |-> "ZodObject", shape |-> shape]      \* <<property, schema>>, in order
ZUnion(options) == [typeName |-> "ZodUnion", options |-> options]
ZDiscriminatedUnion(discriminator, optionsMap) ==                  \* <<tag, schema>>, in order
    [typeName |-> "ZodDiscriminatedUnion", discriminator |-> discriminator,
     optionsMap |-> optionsMap]
ZTuple(items) == [typeName |-> "ZodTuple", items |-> items]
ZRecord(keyType, valueType) ==
    [typeName |-> "ZodRecord", keyType |-> keyType, valueType |-> valueType]
ZMap(keyType, valueType) ==
    [typeName |-> "ZodMap", keyType |-> keyType, valueType |-> valueType]
ZFunction(returns) == [typeName |-> "ZodFunction", returns |-> returns]
ZPromise(type) == [typeName |-> "ZodPromise", type |-> type]
ZWrap(typeName, innerType) == [typeName |-> typeName, innerType |-> innerType]
ZDefault(innerType, defaultValue) ==
    [typeName |-> "ZodDefault", innerType |-> innerType, defaultValue |-> defaultValue]
ZCatch(innerType, catchValue) ==
    [typeName |-> "ZodCatch", innerType |-> innerType, catchValue |-> catchValue]
ZBranded(type) == [typeName |-> "ZodBranded", type |-> type]
ZRefine(schema, fn) ==
    [typeName |-> "ZodEffects", schema |-> schema, effect |-> [type |-> "refinement", fn |-> fn]]
ZTransform(schema, fn) ==
    [typeName |-> "ZodEffects", schema |-> schema, effect |-> [type |-> "transform", fn |-> fn]]
ZPipeline(in, out) == [typeName |-> "ZodPipeline", in |-> in, out |-> out]
ZLazy(getter) == [typeName |-> "ZodLazy", getter |-> getter]
ZIntersection(left, right) == [typeName |-> "ZodIntersection", left |-> left, right |-> right]
ZThirdParty(constructorName) == [constructorName |-> constructorName]   \* no typeName

ScalarSchemas ==
    [string |-> ZString(<<>>),
     number |-> ZNumber(<<>>),
     bigint |-> ZBigInt(<<>>),
     boolean |-> ZKind("ZodBoolean"),
     date |-> ZDate(<<>>),
     undefined |-> ZKind("ZodUndefined"),
     null |-> ZKind("ZodNull"),
     nan |-> ZKind("ZodNaN"),
     any |-> ZKind("ZodAny"),
     unknown |-> ZKind("ZodUnknown"),
     void |-> ZKind("ZodVoid"),
     symbol |-> ZKind("ZodSymbol"),
     literalNumber |-> ZLiteral(Num(1500)),
     literalString |-> ZLiteral(Str(<<"a">>)),
     literalBoolean |-> ZLiteral(Bool(FALSE)),
     literalA |-> ZLiteral(Str(<<"a">>)),
     literalB |-> ZLiteral(Str(<<"b">>)),
     enum |-> ZEnum(<<Str(<<"a">>), Str(<<"b">>)>>),
     nativeEnum |-> ZNativeEnum(<< <<"Duck", Str(<<"d">>)>>, <<"Goose", Num(3000)>>,
                                  <<"3", Str(<<"Goose">>)>> >>),
     numberMin |-> ZNumber(<<CkNum("min", 2000)>>),
     numberMax |-> ZNumber(<<CkNum("max", 2000)>>),
     numberFloatRange |-> ZNumber(<<CkNum("min", 500), CkNum("max", 1500)>>),
     int |-> ZNumber(<<CkKind("int")>>),
     positive |-> ZNumber(<<CkExcl("min", 0)>>),
     negative |-> ZNumber(<<CkExcl("max", 0)>>),
     nonpositive |-> ZNumber(<<CkNum("max", 0)>>),
     nonnegative |-> ZNumber(<<CkNum("min", 0)>>),
     finite |-> ZNumber(<<CkKind("finite")>>),
     multipleOf |-> ZNumber(<<CkNum("multipleOf", 3000)>>),
     multipleMultipleOf |-> ZNumber(<<CkNum("multipleOf", 3000), CkNum("multipleOf", 2000)>>),
     multipleOfRange |->
         ZNumber(<<CkNum("multipleOf", 2000), CkNum("min", -1000), CkNum("max", 3000)>>),
     nonNegInt |-> ZNumber(<<CkKind("int"), CkNum("min", 0)>>),
     positiveInt |-> ZNumber(<<CkKind("int"), CkExcl("min", 0)>>),
     multipleOfExclusive |->
         ZNumber(<<CkNum("multipleOf", 2000), CkExcl("min", -2000), CkExcl("max", 2000)>>),
     stringMin |-> ZString(<<CkNum("min", 2)>>),
     stringMax |-> ZString(<<CkNum("max", 1)>>),
     stringLength |-> ZString(<<CkNum("length", 2)>>),
     stringPrefix |-> ZString(<<CkText("startsWith", <<"a">>)>>),
     stringSuffix |-> ZString(<<CkText("endsWith", <<"1">>)>>),
     stringTrim |-> ZString(<<CkKind("trim")>>),
     stringLengthPrefix |-> ZString(<<CkNum("length", 2), CkText("startsWith", <<"a">>)>>),
     cuid |-> ZString(<<CkKind("cuid")>>),
     cuid2 |-> ZString(<<CkKind("cuid2")>>),
     uuid |-> ZString(<<CkKind("uuid")>>),
     uuidAgain |-> ZString(<<CkKind("uuid")>>),
     uuidMax |-> ZString(<<CkKind("uuid"), CkNum("max", 2)>>),
     maxThenEmail |-> ZString(<<CkNum("max", 1), CkKind("email")>>),
     regexThenUrl |-> ZString(<<CkRegex("\\s"), CkKind("url"), CkText("startsWith", <<"a">>)>>),
     urlThenUuid |-> ZString(<<CkKind("url"), CkKind("uuid")>>),
     url |-> ZString(<<CkKind("url")>>),
     email |-> ZString(<<CkKind("email")>>),
     regex |-> ZString(<<CkRegex("\\s")>>),
     numericString |-> ZString(<<CkRegex("^\\d+$")>>),
     datetime |-> ZString(<<CkKind("datetime")>>),
     bigintGt |-> ZBigInt(<<CkExcl("min", 1)>>),
     bigintGte |-> ZBigInt(<<CkNum("min", 1)>>),
     bigintLt |-> ZBigInt(<<CkExcl("max", 1)>>),
     bigintLte |-> ZBigInt(<<CkNum("max", 1)>>),
     bigintTwoMins |-> ZBigInt(<<CkNum("min", 1), CkNum("min", 2)>>),
     never |-> ZKind("ZodNever"),
     lazy |-> ZLazy("string"),
     thirdParty |-> ZThirdParty("SymbolSchema")]


CompositeSchemas ==
    [arrayOfNumbers |-> ZArray("int", Nil, Nil),
     arrayOfArrays |-> ZArray("arrayOfBooleans", Nil, Nil),
     arrayOfBooleans |-> ZArray("boolean", Nil, Nil),
     nonemptyArray |-> ZArray("boolean", Some(1), Nil),
     emptyObject |-> ZObject(<<>>),
     simpleObject |-> ZObject(<< <<"aString", "stringMax">>, <<"aBoolean", "boolean">> >>),
     nestedObject |-> ZObject(<< <<"child", "childObject">> >>),
     childObject |-> ZObject(<< <<"grandchild1", "null">>, <<"grandchild2", "boolean">> >>),
     union |-> ZUnion(<<"boolean", "stringMax">>),
     discriminatedUnion |->
         ZDiscriminatedUnion("type", << <<"b", "variantB">>, <<"a", "variantA">> >>),
     discriminatedUnionAB |->
         ZDiscriminatedUnion("type", << <<"a", "variantA">>, <<"b", "variantB">> >>),
     variantA |-> ZObject(<< <<"type", "literalA">>, <<"a", "stringMax">> >>),
     variantB |-> ZObject(<< <<"type", "literalB">>, <<"b", "boolean">> >>),
     brandedString |-> ZBranded("stringMax"),
     emptyTuple |-> ZTuple(<<>>),
     nonemptyTuple |-> ZTuple(<<"stringMax", "boolean">>),
     recordOfBooleans |-> ZRecord("stringMax", "boolean"),
     mapOfBooleans |-> ZMap("stringMax", "boolean"),
     setOfBooleans |-> ZSet("boolean", Nil, Nil),
     setWithMin |-> ZSet("boolean", Some(1), Nil),
     arrayMinEleven |-> ZArray("boolean", Some(11), Nil),
     arrayMaxTwelve |-> ZArray("boolean", Nil, Some(12)),
     setMinEleven |-> ZSet("boolean", Some(11), Some(12)),
     functionReturningBoolean |-> ZFunction("boolean"),
     promise |-> ZPromise("boolean"),
     optionalBoolean |-> ZWrap("ZodOptional", "boolean"),
     nullableString |-> ZWrap("ZodNullable", "stringMax"),
     withDefault |-> ZDefault("int", Num(0)),
     stringWithDefault |-> ZDefault("stringMax", Str(<<"a">>)),
     defaultSeven |-> ZDefault("int", Num(7 * Unit)),
     readonly |-> ZWrap("ZodReadonly", "int"),
     stringWithCatch |-> ZCatch("stringMax", Str(<<"a">>)),
     numberRefined |-> ZRefine("int", "multipleOf3"),
     nonNegIntRefined |-> ZRefine("nonNegInt", "multipleOf3"),
     numberToString |-> ZTransform("int", "String"),
     booleanToNumber |-> ZTransform("boolean", "Number"),
     nestedTransformer |-> ZArray("booleanToNumber", Nil, Nil),
     stringToLength |-> ZTransform("string", "length"),
     stringToNumberPipeline |-> ZPipeline("stringToLength", "numberMin"),
     legacyNonEmptyArray |->
         [typeName |-> "ZodArray", constructorName |-> "ZodNonEmptyArray",
          type |-> "boolean", minLength |-> Nil, maxLength |-> Nil],
     intersection |-> ZIntersection("simpleObject", "childObject")]

\* z.string().refine(() => false) and the schemas it is nested in
PathSchemas ==
    [impossible |-> ZRefine("stringMax", "never"),
     impossibleBoolean |-> ZRefine("boolean", "never"),
     impossiblePipeline |-> ZPipeline("stringMax", "boolean"),
     pathNestedObjects |-> ZObject(<< <<"foo", "pathBar">> >>),
     pathBar |-> ZObject(<< <<"bar", "impossible">> >>),
     pathArrays |-> ZObject(<< <<"items", "pathItems">> >>),
     pathItems |-> ZArray("impossible", Nil, Nil),
     pathUnions |-> ZObject(<< <<"status", "pathStatus">> >>),
     pathStatus |-> ZUnion(<<"int", "impossible">>),
     pathDiscriminated |->
         ZDiscriminatedUnion("type", << <<"a", "pathVariantA">>, <<"b", "variantB">> >>),
     pathVariantA |-> ZObject(<< <<"type", "literalA">>, <<"a", "impossible">> >>),
     pathRecord |-> ZObject(<< <<"scores", "pathScoresRecord">> >>),
     pathScoresRecord |-> ZRecord("stringMax", "impossible"),
     pathMapKeys |-> ZObject(<< <<"scores", "pathScoresMapKeys">> >>),
     pathScoresMapKeys |-> ZMap("impossible", "boolean"),
     pathMapValues |-> ZObject(<< <<"scores", "pathScoresMapValues">> >>),
     pathScoresMapValues |-> ZMap("stringMax", "impossible"),
     pathFunction |-> ZObject(<< <<"myFunction", "pathMyFunction">> >>),
     pathMyFunction |-> ZFunction("impossible"),
     pathPromise |-> ZObject(<< <<"myPromise", "pathMyPromise">> >>),
     pathMyPromise |-> ZPromise("impossible"),
     pathOptional |-> ZObject(<< <<"myOptional", "pathMyOptional">> >>),
     pathMyOptional |-> ZWrap("ZodOptional", "impossible"),
     pathNullable |-> ZObject(<< <<"myNullable", "pathMyNullable">> >>),
     pathMyNullable |-> ZWrap("ZodNullable", "impossible"),
     pathDefault |-> ZObject(<< <<"withDefault", "pathWithDefault">> >>),
     pathWithDefault |-> ZDefault("impossible", Str(<<>>)),
     pathTransform |-> ZObject(<< <<"withTransform", "pathWithTransform">> >>),
     pathWithTransform |-> ZTransform("impossible", "Boolean"),
     pathSet |-> ZObject(<< <<"p", "pathMembers">> >>),
     pathMembers |-> ZSet("impossible", Nil, Nil)]

\* the schemas of the override tests
OverrideSchemas ==
    [idsObject |-> ZObject(<< <<"ids", "idsArray">> >>),
     idsArray |-> ZArray("uuid", Nil, Nil),
     idsAgainArray |-> ZArray("uuidAgain", Nil, Nil),
     intAsString |-> ZTransform("int", "String")]

\* schemas that hold an unsupported schema below the root
UnsupportedSchemas ==
    [lazyInObject |-> ZObject(<< <<"child", "lazy">> >>),
     neverInArray |-> ZArray("never", Nil, Nil),
     thirdPartyInMap |-> ZMap("stringMax", "thirdParty"),
     intersectionDeep |-> ZObject(<< <<"items", "intersectionArray">> >>),
     intersectionArray |-> ZArray("intersection", Nil, Nil),
     neverInTuple |-> ZTuple(<<"boolean", "never">>),
     lazyInUnion |-> ZUnion(<<"boolean", "lazy">>),
     lazyBeforeNever |-> ZObject(<< <<"a", "lazy">>, <<"b", "never">> >>)]

Schemas ==
    ScalarSchemas @@ CompositeSchemas @@ PathSchemas @@ OverrideSchemas @@ UnsupportedSchemas

SchemaIds == DOMAIN Schemas


----------------------------------------------------------------------------
(* fast-check arbitraries: trees of combinator nodes.  kids are the         *)
(* arbitraries a combinator is built from.                                  *)

FcString(minLength, maxLength) ==
    [k |-> "string", kids |-> <<>>, minLength |-> minLength, maxLength |-> maxLength]
FcInteger(min, max) == [k |-> "integer", kids |-> <<>>, min |-> min, max |-> max]
FcDouble(min, max) == [k |-> "double", kids |-> <<>>, min |-> min, max |-> max, noNaN |-> TRUE]
FcBigInt(min, max) == [k |-> "bigInt", kids |-> <<>>, min |-> min, max |-> max]
FcLeaf(k) == [k |-> k, kids |-> <<>>]
FcConstant(value) == [k |-> "constant", kids |-> <<>>, value |-> value]
FcArray(arb, minLength, maxLength) ==
    [k |-> "array", kids |-> <<arb>>, minLength |-> minLength, maxLength |-> maxLength]
FcUniqueArray(arb, minLength, maxLength) ==
    [k |-> "uniqueArray", kids |-> <<arb>>, minLength |-> minLength, maxLength |-> maxLength]
FcRecord(keys, arbs) == [k |-> "record", kids |-> arbs, keys |-> keys]
FcOneof(arbs) == [k |-> "oneof", kids |-> arbs]
FcTuple(arbs) == [k |-> "tuple", kids |-> arbs]
FcDictionary(key, value) == [k |-> "dictionary", kids |-> <<key, value>>]
FcOption(arb, nil, freq) == [k |-> "option", kids |-> <<arb>>, nil |-> nil, freq |-> freq]
FcMap(arb, f) == [k |-> "map", kids |-> <<arb>>, f |-> f]
FcFilter(arb, predicate) == [k |-> "filter", kids |-> <<arb>>, predicate |-> predicate]

\* the functions handed to .map(): a name and what the closure captured
MapFn(name) == [name |-> name, text |-> <<>>, num |-> 0, schema |-> ""]
MapFnText(name, text) == [name |-> name, text |-> text, num |-> 0, schema |-> ""]
MapFnNum(name, num) == [name |-> name, text |-> <<>>, num |-> num, schema |-> ""]
MapFnSchema(name, schema) == [name |-> name, text |-> <<>>, num |-> 0, schema |-> schema]

\* a thrown exception, in place of the arbitrary that was to be returned
Throw(error, what, path) ==
    [k |-> "throw", kids |-> <<>>, error |-> error, what |-> what, path |-> path]
IsThrow(arb) == arb.k = "throw"

\* the first exception thrown while the kids were built, else the result
Guard(kids, result) ==
    IF \E i \in 1..Len(kids) : IsThrow(kids[i])
    THEN kids[CHOOSE i \in 1..Len(kids) : IsThrow(kids[i]) /\ \A j \in 1..(i - 1) : ~IsThrow(kids[j])]
    ELSE result

ReportPath(path) == IF path = "" THEN "." ELSE path      \* path || "."

\* faulty variant: the error thrown is of the other class
unsupportedAsGenerationError(schemaTypeName, path) ==
    Throw("ZodFastCheckGenerationError", schemaTypeName, ReportPath(path))

\* faulty variant: the path is shown as it is, the empty one too
unsupportedRawPath(schemaTypeName, path) ==
    Throw("ZodFastCheckUnsupportedSchemaError", schemaTypeName, path)

unsupported(schemaTypeName, path) ==
    Throw("ZodFastCheckUnsupportedSchemaError", schemaTypeName, ReportPath(path))

\* faulty variant: the closure compares the success rate with 0
throwIfSuccessRateBelowZero(ratePercent, predicate, path) ==
    [monitored |-> TRUE, ratePercent |-> 0, test |-> predicate, path |-> path]

\* the closure throwIfSuccessRateBelow returns, before any call of it
throwIfSuccessRateBelow(ratePercent, predicate, path) ==
    [monitored |-> TRUE, ratePercent |-> ratePercent, test |-> predicate, path |-> path]

PlainPredicate(predicate) ==
    [monitored |-> FALSE, ratePercent |-> 0, test |-> predicate, path |-> ""]

\* (value) => schema.safeParse(value).success
SchemaAccepts(schema) == [by |-> "safeParse", schema |-> schema]
\* isUnionMember({ success: true })
isUnionMember == [by |-> "success", schema |-> ""]
\* (email) => !regex.test(email)
EmailCharsOnly == [by |-> "emailChars", schema |-> ""]

\* faulty variant: the path of the schema is not handed on to the closure
filterArbitraryBySchemaAtRoot(arbitrary, schema, path) ==
    Guard(<<arbitrary>>,
          FcFilter(arbitrary, throwIfSuccessRateBelow(RATE_PERCENT, SchemaAccepts(schema), "")))

filterArbitraryBySchema(arbitrary, schema, path) ==
    Guard(<<arbitrary>>,
          FcFilter(arbitrary, throwIfSuccessRateBelow(RATE_PERCENT, SchemaAccepts(schema), path)))

createCuidArb == FcLeaf("cuid")
createDatetimeStringArb == FcLeaf("datetime")

SCALAR_TYPES ==
    {"ZodString", "ZodNumber", "ZodBigInt", "ZodBoolean", "ZodDate", "ZodUndefined", "ZodNull",
     "ZodLiteral", "ZodEnum", "ZodNativeEnum", "ZodAny", "ZodUnknown", "ZodVoid"}

\* the keys of arbitraryBuilders
BuilderNames ==
    {"ZodString", "ZodNumber", "ZodBigInt", "ZodBoolean", "ZodDate", "ZodUndefined", "ZodNull",
     "ZodArray", "ZodObject", "ZodUnion", "ZodIntersection", "ZodTuple", "ZodRecord", "ZodMap",
     "ZodSet", "ZodFunction", "ZodLazy", "ZodLiteral", "ZodEnum", "ZodNativeEnum", "ZodPromise",
     "ZodAny", "ZodUnknown", "ZodNever", "ZodVoid", "ZodOptional", "ZodNullable", "ZodDefault",
     "ZodEffects", "ZodDiscriminatedUnion", "ZodNaN", "ZodBranded", "ZodCatch", "ZodPipeline",
     "ZodSymbol", "ZodReadonly"}

TypeNameOf(def) == IF "typeName" \in DOMAIN def THEN def.typeName ELSE ""
ConstructorName(def) ==
    IF "constructorName" \in DOMAIN def THEN def.constructorName ELSE TypeNameOf(def)

isFirstPartyType(def) == TypeNameOf(def) # "" /\ TypeNameOf(def) \in BuilderNames


----------------------------------------------------------------------------
(* arbitraryBuilders: the builders of the scalar kinds *)

\* the loop over schema._def.checks of ZodString, from check i on; st.returned
\* is set by the return statements inside the loop
RECURSIVE ZodStringChecks(_, _, _)
ZodStringChecks(checks, i, st) ==
    IF i > Len(checks) THEN st
    ELSE
        LET check == checks[i]
            kind == check.kind
        IN  CASE kind = "min" ->
                   ZodStringChecks(checks, i + 1,
                       [st EXCEPT !.minLength = Max2(@, check.value)])
              [] kind = "max" ->
                   ZodStringChecks(checks, i + 1,
                       [st EXCEPT !.maxLength =
                            IF @ = Nil THEN Some(check.value) ELSE Some(Min2(@.value, check.value))])
              [] kind = "length" ->
                   ZodStringChecks(checks, i + 1,
                       [st EXCEPT !.minLength = check.value, !.maxLength = Some(check.value)])
              [] kind = "startsWith" ->
                   ZodStringChecks(checks, i + 1,
                       [st EXCEPT !.mappings = Append(@, MapFnText("prepend", check.text))])
              [] kind = "endsWith" ->
                   ZodStringChecks(checks, i + 1,
                       [st EXCEPT !.mappings = Append(@, MapFnText("append", check.text))])
              [] kind = "trim" -> ZodStringChecks(checks, i + 1, st)
              [] kind = "cuid" -> [st EXCEPT !.returned = Some(createCuidArb)]
              [] kind = "uuid" -> [st EXCEPT !.returned = Some(FcLeaf("uuid"))]
              [] kind = "email" ->
                   [st EXCEPT !.returned =
                        Some(FcFilter(FcLeaf("emailAddress"), PlainPredicate(EmailCharsOnly)))]
              [] kind = "url" -> [st EXCEPT !.returned = Some(FcLeaf("webUrl"))]
              [] kind = "datetime" -> [st EXCEPT !.returned = Some(createDatetimeStringArb)]
              [] OTHER ->
                   ZodStringChecks(checks, i + 1, [st EXCEPT !.hasUnsupportedCheck = TRUE])

RECURSIVE ApplyMappings(_, _, _)
ApplyMappings(arb, mappings, i) ==
    IF i > Len(mappings) THEN arb ELSE ApplyMappings(FcMap(arb, mappings[i]), mappings, i + 1)

\* faulty variant: the arbitrary of a format is filtered by the schema
ZodStringFormatFiltered(schema, def, path) ==
    LET st == ZodStringChecks(def.checks, 1,
                  [minLength |-> 0, maxLength |-> Nil, hasUnsupportedCheck |-> FALSE,
                   mappings |-> <<>>, returned |-> Nil])
        maxLength == IF st.maxLength = Nil THEN 2 * st.minLength + 10 ELSE st.maxLength.value
        unfiltered == ApplyMappings(FcString(st.minLength, maxLength), st.mappings, 1)
    IN  IF st.returned # Nil
        THEN (IF Len(def.checks) > 1 THEN filterArbitraryBySchema(st.returned.value, schema, path)
              ELSE st.returned.value)
        ELSE IF st.hasUnsupportedCheck THEN filterArbitraryBySchema(unfiltered, schema, path)
        ELSE unfiltered

ZodString(schema, def, path) ==
    LET st == ZodStringChecks(def.checks, 1,
                  [minLength |-> 0, maxLength |-> Nil, hasUnsupportedCheck |-> FALSE,
                   mappings |-> <<>>, returned |-> Nil])
        maxLength == IF st.maxLength = Nil THEN 2 * st.minLength + 10 ELSE st.maxLength.value
        unfiltered == ApplyMappings(FcString(st.minLength, maxLength), st.mappings, 1)
    IN  IF st.returned # Nil THEN st.returned.value
        ELSE IF st.hasUnsupportedCheck THEN filterArbitraryBySchema(unfiltered, schema, path)
        ELSE unfiltered

\* the loop over schema._def.checks of ZodNumber; numbers count thousandths
RECURSIVE ZodNumberChecks(_, _, _)
ZodNumberChecks(checks, i, st) ==
    IF i > Len(checks) THEN st
    ELSE
        LET check == checks[i]
            kind == check.kind
        IN  CASE kind = "min" ->
                   ZodNumberChecks(checks, i + 1,
                       [st EXCEPT !.min =
                            Max2(@, IF check.inclusive THEN check.value ELSE check.value + 1)])
              [] kind = "max" ->
                   ZodNumberChecks(checks, i + 1,
                       [st EXCEPT !.isFinite = TRUE,
                                  !.max = Min2(@, IF check.inclusive THEN check.value
                                                  ELSE check.value - 1)])
              [] kind = "int" ->
                   ZodNumberChecks(checks, i + 1,
                       [st EXCEPT !.multipleOf = IF @ = Nil THEN Some(Unit) ELSE @])
              [] kind = "finite" -> ZodNumberChecks(checks, i + 1, [st EXCEPT !.isFinite = TRUE])
              [] kind = "multipleOf" ->
                   ZodNumberChecks(checks, i + 1,
                       [st EXCEPT !.multipleOf =
                            Some(((IF @ = Nil THEN Unit ELSE @.value) * check.value) \div Unit)])
              [] OTHER -> ZodNumberChecks(checks, i + 1, st)

\* faulty variant: the lower bound of the integers is rounded down
ZodNumberMinRoundedDown(def) ==
    LET st == ZodNumberChecks(def.checks, 1,
                  [min |-> -SafeLimit, max |-> SafeLimit, isFinite |-> FALSE, multipleOf |-> Nil])
    IN  IF st.multipleOf # Nil
        THEN LET factor == st.multipleOf.value
             IN  FcMap(FcInteger(FloorDiv(st.min, factor), FloorDiv(st.max, factor)),
                       MapFnNum("times", factor))
        ELSE LET finiteArb == FcDouble(st.min, st.max)
             IN  IF st.isFinite THEN finiteArb
                 ELSE FcOneof(<<finiteArb, FcConstant(Infinity)>>)

ZodNumber(def) ==
    LET st == ZodNumberChecks(def.checks, 1,
                  [min |-> -SafeLimit, max |-> SafeLimit, isFinite |-> FALSE, multipleOf |-> Nil])
    IN  IF st.multipleOf # Nil
        THEN LET factor == st.multipleOf.value
             IN  FcMap(FcInteger(CeilDiv(st.min, factor), FloorDiv(st.max, factor)),
                       MapFnNum("times", factor))
        ELSE LET finiteArb == FcDouble(st.min, st.max)
             IN  IF st.isFinite THEN finiteArb
                 ELSE FcOneof(<<finiteArb, FcConstant(Infinity)>>)

\* the loop over schema._def.checks of ZodBigInt
RECURSIVE ZodBigIntChecks(_, _, _)
ZodBigIntChecks(checks, i, st) ==
    IF i > Len(checks) THEN st
    ELSE
        LET check == checks[i]
            kind == check.kind
        IN  CASE kind = "min" ->
                   LET value == IF check.inclusive THEN check.value ELSE check.value + 1
                   IN  ZodBigIntChecks(checks, i + 1,
                           [st EXCEPT !.min = IF @ = Nil \/ value < @.value THEN Some(value) ELSE @])
              [] kind = "max" ->
                   LET value == IF check.inclusive THEN check.value ELSE check.value - 1
                   IN  ZodBigIntChecks(checks, i + 1,
                           [st EXCEPT !.max = IF @ = Nil \/ value > @.value THEN Some(value) ELSE @])
              [] OTHER -> ZodBigIntChecks(checks, i + 1, st)

ZodBigInt(def) ==
    LET st == ZodBigIntChecks(def.checks, 1, [min |-> Nil, max |-> Nil])
    IN  FcBigInt(st.min, st.max)

\* getValidEnumValues: the values of the keys k with typeof obj[obj[k]] !== "number"
EnumLookup(entries, key) ==
    IF \E i \in 1..Len(entries) : entries[i][1] = key
    THEN (entries[CHOOSE i \in 1..Len(entries) : entries[i][1] = key])[2]
    ELSE Undefined
PropertyKey(value) ==
    LET chars == IF value.t = "number" THEN NumberToString(value.v)
                 ELSE IF value.t = "string" THEN value.v ELSE <<>>
    IN  IF Len(chars) = 1 THEN chars[1] ELSE ""
getValidEnumValues(entries) ==
    LET validKeys ==
            SelectSeq(entries, LAMBDA e : EnumLookup(entries, PropertyKey(e[2])).t # "number")
    IN  [i \in 1..Len(validKeys) |-> validKeys[i][2]]


----------------------------------------------------------------------------
(* _ZodFastCheck: findOverride, inputWithPath and the builders that recurse *)
(* zfc is the overrides Map of the instance (this.overrides).               *)

MapGet(map, key) == IF key \in DOMAIN map THEN map[key] ELSE Nil
MapSet(map, key, value) == (key :> value) @@ map

\* an override is an arbitrary or a function (zfc) => arbitrary
IsFunction(override) == "factory" \in DOMAIN override
Factory(name) == [factory |-> name]

\* [...optionsMap.keys()].sort(): by UTF-16 code unit
CodeUnit == [a |-> 97, b |-> 98, c |-> 99]
RECURSIVE SortKeys(_)
SortKeys(keys) ==
    IF keys = <<>> THEN <<>>
    ELSE LET least == CHOOSE i \in 1..Len(keys) :
                          \A j \in 1..Len(keys) :
                              \/ CodeUnit[keys[i]] < CodeUnit[keys[j]]
                              \/ (CodeUnit[keys[i]] = CodeUnit[keys[j]] /\ i <= j)
         IN  <<keys[least]>> \o
             SortKeys([j \in 1..(Len(keys) - 1) |-> IF j < least THEN keys[j] ELSE keys[j + 1]])

\* faulty variant: the keys are taken in the order of the Map
DiscriminatorKeysAsDeclared(optionsMap) ==
    [i \in 1..Len(optionsMap) |-> optionsMap[i][1]]

\* const keys = [...optionsMap.keys()].sort()
DiscriminatorKeys(optionsMap) ==
    SortKeys([i \in 1..Len(optionsMap) |-> optionsMap[i][1]])

OptionsGet(optionsMap, key) ==
    (optionsMap[CHOOSE i \in 1..Len(optionsMap) : optionsMap[i][1] = key])[2]

\* faulty variant: the members of a set are shown like the elements of an array
SetValuePathAsArray(path) == path \o "[*]"

\* recurse(schema._def.valueType, path + ".(value)") of ZodSet
SetValuePath(path) == path \o ".(value)"

\* faulty variant: a declared maximum is used as it is
CollectionMaxLengthAsDeclared(declared) == IF declared = Nil THEN 10 ELSE declared.value

\* Math.min(schema._def.maxLength?.value ?? 10, 10), for ZodSet of maxSize
CollectionMaxLength(declared) ==
    Min2(IF declared = Nil THEN 10 ELSE declared.value, MaxCollection)

IndexSegment(path, index) == path \o "[" \o ToString(index) \o "]"

RECURSIVE inputWithPath(_, _, _)
RECURSIVE ApplyOverride(_, _)

\* the override functions the tests register
ApplyOverride(name, zfc) ==
    CASE name = "numericStringFactory" ->
           \* (zfc) => zfc.inputOf(z.number().int().nonnegative()).map(String)
           LET arb == inputWithPath(zfc, "nonNegInt", "")
           IN  Guard(<<arb>>, FcMap(arb, MapFn("String")))

\* faulty variant: the overrides are searched for a schema with an equal definition
findOverrideByStructure(zfc, schema) ==
    LET matches == {key \in DOMAIN zfc : Schemas[key] = Schemas[schema]}
        override == IF matches = {} THEN Nil ELSE zfc[CHOOSE key \in matches : TRUE]
    IN  IF override # Nil
        THEN (IF IsFunction(override) THEN ApplyOverride(override.factory, zfc) ELSE override)
        ELSE Nil

\* faulty variant: an override function is handed a fresh ZodFastCheck()
findOverrideFreshInstance(zfc, schema) ==
    LET override == MapGet(zfc, schema)
    IN  IF override # Nil
        THEN (IF IsFunction(override) THEN ApplyOverride(override.factory, <<>>) ELSE override)
        ELSE Nil

findOverride(zfc, schema) ==
    LET override == MapGet(zfc, schema)
    IN  IF override # Nil
        THEN (IF IsFunction(override) THEN ApplyOverride(override.factory, zfc) ELSE override)
        ELSE Nil

\* faulty variant: the candidates are validated by the first stage only
ZodPipelineFirstStage(inArbitrary, schema, path) ==
    FcFilter(inArbitrary,
             throwIfSuccessRateBelow(RATE_PERCENT, SchemaAccepts(Schemas[schema].in), path))

\* arbitraryBuilders.ZodPipeline, given recurse(schema._def.in, path)
ZodPipeline(inArbitrary, schema, path) ==
    FcFilter(inArbitrary, throwIfSuccessRateBelow(RATE_PERCENT, SchemaAccepts(schema), path))

\* faulty variant: the input is never left out
ZodDefaultNeverAbsent(innerArbitrary) == FcOneof(<<innerArbitrary>>)

\* arbitraryBuilders.ZodDefault, given recurse(schema._def.innerType, path)
ZodDefault(innerArbitrary) == FcOneof(<<FcConstant(Undefined), innerArbitrary>>)

\* arbitraryBuilders[typeName](schema, path, recurse), recurse being
\* this.inputWithPath.bind(this)
arbitraryBuilders(zfc, schema, def, path) ==
    LET typeName == def.typeName
        recurse(s, p) == inputWithPath(zfc, s, p)
        one(s, p, result(_)) == LET arb == recurse(s, p) IN Guard(<<arb>>, result(arb))
    IN  CASE typeName = "ZodString" -> ZodString(schema, def, path)
          [] typeName = "ZodNumber" -> ZodNumber(def)
          [] typeName = "ZodBigInt" -> ZodBigInt(def)
          [] typeName = "ZodBoolean" -> FcLeaf("boolean")
          [] typeName = "ZodDate" -> FcLeaf("date")
          [] typeName = "ZodUndefined" -> FcConstant(Undefined)
          [] typeName = "ZodNull" -> FcConstant(Null)
          [] typeName = "ZodArray" ->
               LET minLength == IF def.minLength = Nil THEN 0 ELSE def.minLength.value
                   maxLength == CollectionMaxLength(def.maxLength)
               IN  one(def.type, path \o "[*]", LAMBDA arb : FcArray(arb, minLength, maxLength))
          [] typeName = "ZodObject" ->
               LET arbs == [i \in 1..Len(def.shape) |->
                                recurse(def.shape[i][2], path \o "." \o def.shape[i][1])]
               IN  Guard(arbs, FcRecord([i \in 1..Len(def.shape) |-> def.shape[i][1]], arbs))
          [] typeName = "ZodUnion" ->
               LET arbs == [i \in 1..Len(def.options) |-> recurse(def.options[i], path)]
               IN  Guard(arbs, FcOneof(arbs))
          [] typeName = "ZodIntersection" -> unsupported("Intersection", path)
          [] typeName = "ZodTuple" ->
               LET arbs == [i \in 1..Len(def.items) |->
                                recurse(def.items[i], IndexSegment(path, i - 1))]
               IN  Guard(arbs, FcTuple(arbs))
          [] typeName = "ZodRecord" ->
               LET arbs == <<recurse(def.keyType, path), recurse(def.valueType, path \o "[*]")>>
               IN  Guard(arbs, FcDictionary(arbs[1], arbs[2]))
          [] typeName = "ZodMap" ->
               LET arbs == <<recurse(def.keyType, path \o ".(key)"),
                             recurse(def.valueType, path \o ".(value)")>>
               IN  Guard(arbs, FcMap(FcArray(FcTuple(arbs), 0, MaxCollection), MapFn("Map")))
          [] typeName = "ZodSet" ->
               LET minLength == IF def.minSize = Nil THEN 0 ELSE def.minSize.value
                   maxLength == CollectionMaxLength(def.maxSize)
               IN  one(def.valueType, SetValuePath(path),
                       LAMBDA arb : FcMap(FcUniqueArray(arb, minLength, maxLength), MapFn("Set")))
          [] typeName = "ZodFunction" ->
               one(def.returns, path \o ".(return type)",
                   LAMBDA arb : FcMap(arb, MapFn("thunk")))
          [] typeName = "ZodLazy" -> unsupported("Lazy", path)
          [] typeName = "ZodLiteral" -> FcConstant(def.value)
          [] typeName = "ZodEnum" ->
               FcOneof([i \in 1..Len(def.values) |-> FcConstant(def.values[i])])
          [] typeName = "ZodNativeEnum" ->
               LET enumValues == getValidEnumValues(def.values)
               IN  FcOneof([i \in 1..Len(enumValues) |-> FcConstant(enumValues[i])])
          [] typeName = "ZodPromise" ->
               one(def.type, path \o ".(resolved type)",
                   LAMBDA arb : FcMap(arb, MapFn("Promise.resolve")))
          [] typeName = "ZodAny" -> FcLeaf("anything")
          [] typeName = "ZodUnknown" -> FcLeaf("anything")
          [] typeName = "ZodNever" -> unsupported("Never", path)
          [] typeName = "ZodVoid" -> FcConstant(Undefined)
          [] typeName = "ZodOptional" ->
               one(def.innerType, path, LAMBDA arb : FcOption(arb, Undefined, 2))
          [] typeName = "ZodNullable" ->
               one(def.innerType, path, LAMBDA arb : FcOption(arb, Null, 2))
          [] typeName = "ZodDefault" ->
               one(def.innerType, path, LAMBDA arb : ZodDefault(arb))
          [] typeName = "ZodEffects" ->
               filterArbitraryBySchema(recurse(def.schema, path), schema, path)
          [] typeName = "ZodDiscriminatedUnion" ->
               LET keys == DiscriminatorKeys(def.optionsMap)
                   arbs == [i \in 1..Len(keys) |->
                                recurse(OptionsGet(def.optionsMap, keys[i]), path)]
               IN  Guard(arbs, FcOneof(arbs))
          [] typeName = "ZodNaN" -> FcConstant(NaN)
          [] typeName = "ZodBranded" -> recurse(def.type, path)
          [] typeName = "ZodCatch" ->
               one(def.innerType, path, LAMBDA arb : FcOneof(<<arb, FcLeaf("anything")>>))
          [] typeName = "ZodPipeline" ->
               one(def.in, path, LAMBDA arb : ZodPipeline(arb, schema, path))
          [] typeName = "ZodSymbol" -> FcMap(FcString(0, 10), MapFn("Symbol"))
          [] typeName = "ZodReadonly" ->
               one(def.innerType, path, LAMBDA arb : FcMap(arb, MapFn("Object.freeze")))

\* faulty variant: only the schema handed to inputOf is looked up in the overrides
inputWithPathRootOnly(zfc, schema, path) ==
    LET override == IF path = "" THEN findOverride(zfc, schema) ELSE Nil
        def == Schemas[schema]
    IN  IF override # Nil THEN override
        ELSE IF isFirstPartyType(def) THEN arbitraryBuilders(zfc, schema, def, path)
        ELSE unsupported("'" \o ConstructorName(def) \o "'", path)

\* faulty variant: the builder is called first, the override is looked up
\* when the builder has returned
inputWithPathBuilderFirst(zfc, schema, path) ==
    LET override == findOverride(zfc, schema)
        def == Schemas[schema]
        built == IF isFirstPartyType(def) THEN arbitraryBuilders(zfc, schema, def, path)
                 ELSE unsupported("'" \o ConstructorName(def) \o "'", path)
    IN  IF IsThrow(built) THEN built
        ELSE IF override # Nil THEN override
        ELSE built

inputWithPath(zfc, schema, path) ==
    LET override == findOverride(zfc, schema)
        given == Schemas[schema]
        \* new ZodArray({...def, minLength: def.minLength ?? { value: 1 }})
        def == IF ConstructorName(given) = "ZodNonEmptyArray"
               THEN [given EXCEPT !.constructorName = "ZodArray",
                                  !.minLength = IF @ = Nil THEN Some(1) ELSE @]
               ELSE given
    IN  IF override # Nil THEN override
        ELSE IF isFirstPartyType(def) THEN arbitraryBuilders(zfc, schema, def, path)
        ELSE unsupported("'" \o ConstructorName(given) \o "'", path)

inputOf(zfc, schema) == inputWithPath(zfc, schema, "")

\* faulty variant: the scalar types are parsed and filtered like the others
outputOfAlwaysParses(zfc, schema) ==
    LET inputArbitrary == inputOf(zfc, schema)
    IN  IF IsThrow(inputArbitrary) THEN inputArbitrary
        ELSE FcMap(FcFilter(FcMap(inputArbitrary, MapFnSchema("safeParse", schema)),
                            throwIfSuccessRateBelow(RATE_PERCENT, isUnionMember, "")),
                   MapFn("data"))

\* faulty variant: the values of an override are never parsed
outputOfOverrideUnparsed(zfc, schema) ==
    LET inputArbitrary == inputOf(zfc, schema)
        def == Schemas[schema]
    IN  IF IsThrow(inputArbitrary) THEN inputArbitrary
        ELSE IF findOverride(zfc, schema) # Nil THEN inputArbitrary
        ELSE IF isFirstPartyType(def) /\ def.typeName \in SCALAR_TYPES THEN inputArbitrary
        ELSE FcMap(FcFilter(FcMap(inputArbitrary, MapFnSchema("safeParse", schema)),
                            throwIfSuccessRateBelow(RATE_PERCENT, isUnionMember, "")),
                   MapFn("data"))

outputOf(zfc, schema) ==
    LET inputArbitrary == inputOf(zfc, schema)
        def == Schemas[schema]
    IN  IF IsThrow(inputArbitrary) THEN inputArbitrary
        ELSE IF isFirstPartyType(def) /\ def.typeName \in SCALAR_TYPES THEN inputArbitrary
        ELSE FcMap(FcFilter(FcMap(inputArbitrary, MapFnSchema("safeParse", schema)),
                            throwIfSuccessRateBelow(RATE_PERCENT, isUnionMember, "")),
                   MapFn("data"))

\* faulty variant: the new Map starts empty
cloneEmpty(zfc) == [schema \in {} |-> Nil]

clone(zfc) == [schema \in DOMAIN zfc |-> zfc[schema]]

\* faulty variant: withOverride is the receiver itself, not a clone of it
overrideInPlace(objects, this, schema, arbitrary) ==
    LET withOverride == MapSet(objects[this], schema, arbitrary)
    IN  Append([objects EXCEPT ![this] = withOverride], withOverride)

\* faulty variant: an entry that is already there is kept
overrideFirstWins(objects, this, schema, arbitrary) ==
    LET withOverride == clone(objects[this])
    IN  Append(objects, IF schema \in DOMAIN withOverride THEN withOverride
                        ELSE MapSet(withOverride, schema, arbitrary))

\* this.override(schema, arbitrary): the _ZodFastCheck objects after the call,
\* the last one being the instance returned
override(objects, this, schema, arbitrary) ==
    LET withOverride == clone(objects[this])
    IN  Append(objects, MapSet(withOverride, schema, arbitrary))


----------------------------------------------------------------------------
(* schema.safeParse(value) of Zod: [success, data] *)

OK(data) == [success |-> TRUE, data |-> data]
INVALID == [success |-> FALSE, data |-> Undefined]

Key(property) == <<property>>              \* a property name, as the string it is

Property(value, key) ==
    IF \E i \in 1..Len(value.v) : value.v[i][1] = key
    THEN (value.v[CHOOSE i \in 1..Len(value.v) : value.v[i][1] = key])[2]
    ELSE Undefined

\* the checks of a ZodString from check i on; trim replaces the data
RECURSIVE ParseStringChecks(_, _, _)
ParseStringChecks(checks, i, s) ==
    IF i > Len(checks) THEN OK(Str(s))
    ELSE
        LET check == checks[i]
            kind == check.kind
            next(ok, t) == IF ok THEN ParseStringChecks(checks, i + 1, t) ELSE INVALID
        IN  CASE kind = "min" -> next(Len(s) >= check.value, s)
              [] kind = "max" -> next(Len(s) <= check.value, s)
              [] kind = "length" -> next(Len(s) = check.value, s)
              [] kind = "startsWith" -> next(StartsWith(s, check.text), s)
              [] kind = "endsWith" -> next(EndsWith(s, check.text), s)
              [] kind = "trim" -> next(TRUE, Trim(s))
              [] kind = "regex" -> next(RegexTest(check.text[1], s), s)
              [] kind = "cuid2" -> next(s # <<>> /\ s[1] = "a" /\ ~HasWhitespace(s), s)
              [] OTHER -> next(FormatOk(kind, s), s)

NumberCheckOk(check, value) ==
    LET kind == check.kind
    IN  IF value.t = "infinity" THEN kind = "min"
        ELSE CASE kind = "min" ->
                    IF check.inclusive THEN value.v >= check.value ELSE value.v > check.value
               [] kind = "max" ->
                    IF check.inclusive THEN value.v <= check.value ELSE value.v < check.value
               [] kind = "int" -> value.v % Unit = 0
               [] kind = "multipleOf" -> value.v % check.value = 0
               [] kind = "finite" -> TRUE
               [] OTHER -> TRUE

BigIntCheckOk(check, value) ==
    CASE check.kind = "min" ->
           IF check.inclusive THEN value.v >= check.value ELSE value.v > check.value
      [] check.kind = "max" ->
           IF check.inclusive THEN value.v <= check.value ELSE value.v < check.value
      [] OTHER -> TRUE

\* the functions given to refine() and transform()
EffectFn(fn, data) ==
    CASE fn = "never" -> Bool(FALSE)                                   \* () => false
      [] fn = "multipleOf3" -> Bool(data.v % (3 * Unit) = 0)           \* (x) => x % 3 === 0
      [] fn = "String" -> Str(NumberToString(data.v))
      [] fn = "Number" -> Num(IF data.v THEN Unit ELSE 0)
      [] fn = "length" -> Num(Len(data.v) * Unit)                      \* (s) => s.length
      [] fn = "Boolean" -> Bool(data.v # <<>>)                         \* (s) => !!s

\* new Map(entries): a later entry of a key replaces the earlier one
RECURSIVE NewMap(_)
NewMap(entries) ==
    IF entries = <<>> THEN <<>>
    ELSE LET last == entries[Len(entries)]
             before == NewMap(SubSeq(entries, 1, Len(entries) - 1))
         IN  IF \E i \in 1..Len(before) : before[i][1] = last[1]
             THEN [i \in 1..Len(before) |-> IF before[i][1] = last[1] THEN last ELSE before[i]]
             ELSE Append(before, last)

AllOk(results) == \A i \in 1..Len(results) : results[i].success
Datas(results) == [i \in 1..Len(results) |-> results[i].data]

RECURSIVE safeParse(_, _)
safeParse(schema, value) ==
    LET def == Schemas[schema]
        typeName == TypeNameOf(def)
        inner(s) == safeParse(s, value)
        each(s) == [i \in 1..Len(value.v) |-> safeParse(s, value.v[i])]
    IN  CASE typeName = "ZodString" ->
               IF value.t = "string" THEN ParseStringChecks(def.checks, 1, value.v) ELSE INVALID
          [] typeName = "ZodNumber" ->
               IF /\ value.t \in {"number", "infinity"}
                  /\ \A i \in 1..Len(def.checks) : NumberCheckOk(def.checks[i], value)
               THEN OK(value) ELSE INVALID
          [] typeName = "ZodBigInt" ->
               IF /\ value.t = "bigint"
                  /\ \A i \in 1..Len(def.checks) : BigIntCheckOk(def.checks[i], value)
               THEN OK(value) ELSE INVALID
          [] typeName = "ZodBoolean" -> IF value.t = "boolean" THEN OK(value) ELSE INVALID
          [] typeName = "ZodDate" -> IF value.t = "date" THEN OK(value) ELSE INVALID
          [] typeName = "ZodSymbol" -> IF value.t = "symbol" THEN OK(value) ELSE INVALID
          [] typeName = "ZodNaN" -> IF value.t = "nan" THEN OK(value) ELSE INVALID
          [] typeName \in {"ZodUndefined", "ZodVoid"} ->
               IF value = Undefined THEN OK(value) ELSE INVALID
          [] typeName = "ZodNull" -> IF value = Null THEN OK(value) ELSE INVALID
          [] typeName \in {"ZodAny", "ZodUnknown"} -> OK(value)
          [] typeName = "ZodNever" -> INVALID
          [] typeName = "ZodLiteral" -> IF value = def.value THEN OK(value) ELSE INVALID
          [] typeName = "ZodEnum" ->
               IF \E i \in 1..Len(def.values) : def.values[i] = value THEN OK(value) ELSE INVALID
          [] typeName = "ZodNativeEnum" ->
               LET values == getValidEnumValues(def.values)
               IN  IF \E i \in 1..Len(values) : values[i] = value THEN OK(value) ELSE INVALID
          [] typeName = "ZodArray" ->
               IF /\ value.t = "array"
                  /\ def.minLength # Nil => Len(value.v) >= def.minLength.value
                  /\ def.maxLength # Nil => Len(value.v) <= def.maxLength.value
                  /\ ConstructorName(def) = "ZodNonEmptyArray" => value.v # <<>>
                  /\ AllOk(each(def.type))
               THEN OK(Arr(Datas(each(def.type)))) ELSE INVALID
          [] typeName = "ZodSet" ->
               IF /\ value.t = "set"
                  /\ def.minSize # Nil => Len(value.v) >= def.minSize.value
                  /\ def.maxSize # Nil => Len(value.v) <= def.maxSize.value
                  /\ AllOk(each(def.valueType))
               THEN OK(SetV(Datas(each(def.valueType)))) ELSE INVALID
          [] typeName = "ZodTuple" ->
               LET results == [i \in 1..Len(def.items) |-> safeParse(def.items[i], value.v[i])]
               IN  IF value.t = "array" /\ Len(value.v) = Len(def.items) /\ AllOk(results)
                   THEN OK(Arr(Datas(results))) ELSE INVALID
          [] typeName = "ZodObject" ->
               LET results == [i \in 1..Len(def.shape) |->
                                   safeParse(def.shape[i][2], Property(value, Key(def.shape[i][1])))]
               IN  IF value.t = "object" /\ AllOk(results)
                   THEN OK(Obj([i \in 1..Len(def.shape) |->
                                    <<Key(def.shape[i][1]), results[i].data>>]))
                   ELSE INVALID
          [] typeName = "ZodRecord" ->
               LET keys == [i \in 1..Len(value.v) |-> safeParse(def.keyType, Str(value.v[i][1]))]
                   values == [i \in 1..Len(value.v) |-> safeParse(def.valueType, value.v[i][2])]
               IN  IF value.t = "object" /\ AllOk(keys) /\ AllOk(values)
                   THEN OK(Obj([i \in 1..Len(value.v) |-> <<keys[i].data.v, values[i].data>>]))
                   ELSE INVALID
          [] typeName = "ZodMap" ->
               LET keys == [i \in 1..Len(value.v) |-> safeParse(def.keyType, value.v[i][1])]
                   values == [i \in 1..Len(value.v) |-> safeParse(def.valueType, value.v[i][2])]
               IN  IF value.t = "map" /\ AllOk(keys) /\ AllOk(values)
                   THEN OK(MapV(NewMap([i \in 1..Len(value.v) |->
                                            <<keys[i].data, values[i].data>>])))
                   ELSE INVALID
          [] typeName = "ZodUnion" ->
               LET results == [i \in 1..Len(def.options) |-> inner(def.options[i])]
               IN  IF \E i \in 1..Len(results) : results[i].success
                   THEN results[CHOOSE i \in 1..Len(results) :
                                    results[i].success /\ \A j \in 1..(i - 1) : ~results[j].success]
                   ELSE INVALID
          [] typeName = "ZodDiscriminatedUnion" ->
               LET tag == IF value.t = "object" THEN Property(value, Key(def.discriminator))
                          ELSE Undefined
                   has == \E i \in 1..Len(def.optionsMap) : Str(<<def.optionsMap[i][1]>>) = tag
               IN  IF has THEN inner(OptionsGet(def.optionsMap, tag.v[1])) ELSE INVALID
          [] typeName = "ZodFunction" -> IF value.t = "function" THEN OK(value) ELSE INVALID
          [] typeName = "ZodPromise" -> IF value.t = "promise" THEN OK(value) ELSE INVALID
          [] typeName = "ZodOptional" ->
               IF value = Undefined THEN OK(Undefined) ELSE inner(def.innerType)
          [] typeName = "ZodNullable" -> IF value = Null THEN OK(Null) ELSE inner(def.innerType)
          [] typeName = "ZodDefault" ->
               IF value = Undefined THEN safeParse(def.innerType, def.defaultValue)
               ELSE inner(def.innerType)
          [] typeName = "ZodCatch" ->
               IF inner(def.innerType).success THEN inner(def.innerType) ELSE OK(def.catchValue)
          [] typeName = "ZodBranded" -> inner(def.type)
          [] typeName = "ZodReadonly" ->
               IF inner(def.innerType).success THEN OK(Frozen(inner(def.innerType).data))
               ELSE INVALID
          [] typeName = "ZodLazy" -> inner(def.getter)
          [] typeName = "ZodIntersection" ->
               IF inner(def.left).success /\ inner(def.right).success
               THEN OK(Obj(inner(def.left).data.v \o inner(def.right).data.v)) ELSE INVALID
          [] typeName = "ZodEffects" ->
               LET base == inner(def.schema)
               IN  IF ~base.success THEN INVALID
                   ELSE IF def.effect.type = "refinement"
                   THEN (IF EffectFn(def.effect.fn, base.data).v THEN base ELSE INVALID)
                   ELSE OK(EffectFn(def.effect.fn, base.data))
          [] typeName = "ZodPipeline" ->
               LET first == inner(def.in)
               IN  IF first.success THEN safeParse(def.out, first.data) ELSE INVALID
          [] OTHER -> IF value = Sym(<<"iterator">>) THEN OK(value) ELSE INVALID


----------------------------------------------------------------------------
(* What the engine can draw from an arbitrary.  The primitive arbitraries   *)
(* draw from small samples of their ranges.                                 *)

IntSample == (-MaxSample)..MaxSample
DoubleSample == {h * (Unit \div 2) : h \in (-2 * MaxSample)..(2 * MaxSample)}
InSampleRange(n) == (-MaxSample) * Unit <= n /\ n <= MaxSample * Unit
AnythingSample == {Undefined, Null, Bool(TRUE), Num(0), Str(<<"a">>), Arr(<<>>)}
DateSample == {DateV(0), DateV(1)}

\* the sequences that take their i-th element from sets[i]
RECURSIVE Product(_)
Product(sets) ==
    IF sets = <<>> THEN {<<>>}
    ELSE {<<x>> \o rest : x \in Head(sets), rest \in Product(Tail(sets))}

Distinct(s) == \A i, j \in 1..Len(s) : i # j => s[i] # s[j]

\* what (value) => ... of a .map() returns
ApplyMap(f, value) ==
    CASE f.name = "prepend" -> Str(f.text \o value.v)                  \* check.value + s
      [] f.name = "append" -> Str(value.v \o f.text)                   \* s + check.value
      [] f.name = "times" -> Num((value.v * f.num) \div Unit)          \* x * factor
      [] f.name = "String" -> Str(NumberToString(value.v))
      [] f.name = "Map" -> MapV(NewMap([i \in 1..Len(value.v) |-> value.v[i].v]))
      [] f.name = "Set" -> SetV(value.v)
      [] f.name = "thunk" -> Fn(value)
      [] f.name = "Promise.resolve" -> Prom(value)
      [] f.name = "Symbol" -> Sym(value.v)
      [] f.name = "Object.freeze" -> Frozen(value)
      [] f.name = "safeParse" ->
           LET parsed == safeParse(f.schema, value)
           IN  [t |-> "parsed", v |-> <<Bool(parsed.success), parsed.data>>]
      [] f.name = "data" -> value.v[2]                                 \* parsed.data

\* what the predicate of a .filter() answers
Accepts(test, value) ==
    CASE test.by = "safeParse" -> safeParse(test.schema, value).success
      [] test.by = "success" -> value.v[1] = Bool(TRUE)
      [] test.by = "emailChars" ->
           \A i \in 1..Len(value.v) : value.v[i] \in {"a", "1", "@", ".", "+", "-"}

RECURSIVE Yields(_)
Yields(arb) ==
    LET k == arb.k
        kid(i) == Yields(arb.kids[i])
        lengths == arb.minLength..Min2(arb.maxLength, MaxElems)
    IN  CASE k = "string" ->
               {Str(s) : s \in SeqsBetween(Alphabet, arb.minLength, Min2(arb.maxLength, MaxStrLen))}
          [] k = "integer" ->
               {Num(i * Unit) : i \in {j \in IntSample : arb.min <= j /\ j <= arb.max}}
          [] k = "double" ->
               {Num(n) : n \in {m \in DoubleSample \cup {x \in {arb.min, arb.max} : InSampleRange(x)} :
                                    arb.min <= m /\ m <= arb.max}}
          [] k = "bigInt" ->
               {BigI(i) : i \in {j \in IntSample : /\ arb.min # Nil => arb.min.value <= j
                                                   /\ arb.max # Nil => j <= arb.max.value}}
          [] k = "boolean" -> {Bool(TRUE), Bool(FALSE)}
          [] k = "date" -> DateSample
          [] k = "anything" -> AnythingSample
          [] k = "uuid" -> {Str(UuidSample)}
          [] k = "emailAddress" -> {Str(EmailSample)}
          [] k = "webUrl" -> {Str(UrlSample)}
          [] k = "cuid" -> {Str(CuidSample)}
          [] k = "datetime" -> {Str(DatetimeSample)}
          [] k = "constant" -> {arb.value}
          [] k = "array" -> {Arr(s) : s \in UNION {SeqsOver(kid(1), n) : n \in lengths}}
          [] k = "uniqueArray" ->
               {Arr(s) : s \in {u \in UNION {SeqsOver(kid(1), n) : n \in lengths} : Distinct(u)}}
          [] k = "tuple" -> {Arr(s) : s \in Product([i \in 1..Len(arb.kids) |-> kid(i)])}
          [] k = "record" ->
               {Obj([i \in 1..Len(s) |-> <<Key(arb.keys[i]), s[i]>>]) :
                    s \in Product([i \in 1..Len(arb.kids) |-> kid(i)])}
          [] k = "dictionary" ->
               {Obj(s) : s \in {u \in SeqsBetween({<<key.v, value>> : key \in kid(1), value \in kid(2)},
                                                  0, MaxElems) :
                                    \A i, j \in 1..Len(u) : i # j => u[i][1] # u[j][1]}}
          [] k = "oneof" -> UNION {kid(i) : i \in 1..Len(arb.kids)}
          [] k = "option" -> {arb.nil} \cup kid(1)
          [] k = "map" -> {ApplyMap(arb.f, value) : value \in kid(1)}
          [] k = "filter" -> {value \in kid(1) : Accepts(arb.predicate.test, value)}
          [] k = "throw" -> {}


----------------------------------------------------------------------------
(* The closure returned by throwIfSuccessRateBelow, called on a candidate   *)

\* one call (value) => ... with predicate(value) = isSuccess: the counters
\* after it and whether it throws.  successful / total < rate is compared
\* exactly: successful * 100 < total * ratePercent
\* faulty variant: the rate is also checked on call number MIN_RUNS
SuccessRateCallFromMinRuns(closure, counter, isSuccess) ==
    LET total == counter.total + 1
        successful == IF isSuccess THEN counter.successful + 1 ELSE counter.successful
    IN  [total |-> total,
         successful |-> successful,
         throws |-> total >= MIN_RUNS /\ successful * 100 < total * closure.ratePercent,
         returns |-> isSuccess]

\* faulty variant: a call that throws leaves the counters as they were
SuccessRateCallSkipsThrown(closure, counter, isSuccess) ==
    LET total == counter.total + 1
        successful == IF isSuccess THEN counter.successful + 1 ELSE counter.successful
        throws == total > MIN_RUNS /\ successful * 100 < total * closure.ratePercent
    IN  [total |-> IF throws THEN counter.total ELSE total,
         successful |-> IF throws THEN counter.successful ELSE successful,
         throws |-> throws,
         returns |-> isSuccess]

\* faulty variant: an accepted candidate is returned without the rate check
SuccessRateCallAcceptedPasses(closure, counter, isSuccess) ==
    LET total == counter.total + 1
        successful == IF isSuccess THEN counter.successful + 1 ELSE counter.successful
    IN  [total |-> total,
         successful |-> successful,
         throws |-> ~isSuccess /\ total > MIN_RUNS
                        /\ successful * 100 < total * closure.ratePercent,
         returns |-> isSuccess]

\* faulty variant: the rate is checked on the successes counted before the
\* call
SuccessRateCallChecksBeforeCounting(closure, counter, isSuccess) ==
    LET total == counter.total + 1
        successful == IF isSuccess THEN counter.successful + 1 ELSE counter.successful
    IN  [total |-> total,
         successful |-> successful,
         throws |-> total > MIN_RUNS
                        /\ counter.successful * 100 < total * closure.ratePercent,
         returns |-> isSuccess]

\* let successful = 0; let total = 0: the variables live in the scope of one
\* call of throwIfSuccessRateBelow, so every filter of every arbitrary built
\* has its own
\* faulty variant: the variables are shared by all the arbitraries
ScopeShared(generator) == 1

Scope(generator) == generator

\* the variables as a call of the closure finds them: as the call before
\* left them, whichever property run either call belongs to
\* faulty variant: a property run starts counting anew
ClosureVariablesPerRun(counter, firstOfRun) ==
    IF firstOfRun THEN [successful |-> 0, total |-> 0] ELSE counter

ClosureVariables(counter, firstOfRun) == counter

SuccessRateCall(closure, counter, isSuccess) ==
    LET total == counter.total + 1
        successful == IF isSuccess THEN counter.successful + 1 ELSE counter.successful
    IN  [total |-> total,
         successful |-> successful,
         throws |-> total > MIN_RUNS /\ successful * 100 < total * closure.ratePercent,
         returns |-> isSuccess]

\* the nodes of an arbitrary, by route: the kid indices from the root
RECURSIVE Routes(_)
Routes(arb) ==
    {<<>>} \cup UNION {{<<i>> \o r : r \in Routes(arb.kids[i])} : i \in 1..Len(arb.kids)}

RECURSIVE ArbAt(_, _)
ArbAt(arb, route) == IF route = <<>> THEN arb ELSE ArbAt(arb.kids[Head(route)], Tail(route))

IsMonitor(arb) == arb.k = "filter" /\ arb.predicate.monitored
MonitorRoutes(arb) == {r \in Routes(arb) : IsMonitor(ArbAt(arb, r))}

----------------------------------------------------------------------------
(* State and operations *)

EmptyMap == [schema \in {} |-> Nil]        \* new Map()

NoCall == [op |-> "new", zfc |-> 1, schema |-> "", arbitrary |-> Nil, returned |-> Nil]
NoOutcome ==
    [kind |-> "none", generator |-> 1, run |-> 1, route |-> <<>>, isSuccess |-> FALSE,
     error |-> "", path |-> "", value |-> Undefined]
NoRuns == <<0, 0>>

\* successful = 0, total = 0 in every closure of throwIfSuccessRateBelow
NewCounters(arb) == [route \in MonitorRoutes(arb) |-> [successful |-> 0, total |-> 0]]

\* the overrides that are registered: those of the tests, a second arbitrary
\* for UUID and one for the schema the override function resolves
Registrations ==
    {<<"uuid", FcLeaf("uuid")>>,
     <<"uuid", FcConstant(Str(UuidSample))>>,
     <<"intAsString", FcInteger(-MaxSample, MaxSample)>>,
     <<"numericString", Factory("numericStringFactory")>>,
     <<"nonNegInt", FcInteger(0, MaxSample)>>}
InputSchemas == {"uuid", "uuidAgain", "idsObject", "numericString", "nonNegInt", "intAsString"}
OutputSchemas == {"uuid", "numericString", "intAsString"}

\* zfc.override(schema, arbitrary) on instance c
Override(c, schema, arbitrary) ==
    /\ Len(instances) < MaxInstances
    /\ instances' = override(instances, c, schema, arbitrary)
    /\ derivations' = Append(derivations, [base |-> c, had |-> instances[c],
                                           schema |-> schema, arbitrary |-> arbitrary])
    /\ call' = [op |-> "override", zfc |-> c, schema |-> schema, arbitrary |-> arbitrary,
                returned |-> [instance |-> Len(instances) + 1]]
    /\ UNCHANGED <<counters, runs, outcome>>

\* zfc.inputOf(schema) on instance c
InputOf(c, schema) ==
    LET arbitrary == inputOf(instances[c], schema)
    IN  /\ call' = [op |-> "inputOf", zfc |-> c, schema |-> schema, arbitrary |-> Nil,
                    returned |-> arbitrary]
        /\ counters' = <<NewCounters(arbitrary)>>
        /\ runs' = NoRuns
        /\ outcome' = NoOutcome
        /\ UNCHANGED <<instances, derivations>>

\* zfc.outputOf(schema) on instance c
OutputOf(c, schema) ==
    LET arbitrary == outputOf(instances[c], schema)
    IN  /\ call' = [op |-> "outputOf", zfc |-> c, schema |-> schema, arbitrary |-> Nil,
                    returned |-> arbitrary]
        /\ counters' = <<NewCounters(arbitrary)>>
        /\ runs' = NoRuns
        /\ outcome' = NoOutcome
        /\ UNCHANGED <<instances, derivations>>

\* the arbitrary last built generates a value
Draw(value) ==
    /\ outcome' = [NoOutcome EXCEPT !.kind = "drawn", !.value = value]
    /\ UNCHANGED <<instances, derivations, call, counters, runs>>

\* the same call is made once more and builds a second arbitrary, with
\* closures of its own
BuildAgain ==
    /\ call.op \in {"inputOf", "outputOf"}
    /\ ~IsThrow(call.returned)
    /\ Len(counters) = 1
    /\ counters' = Append(counters, NewCounters(call.returned))
    /\ UNCHANGED <<instances, derivations, call, runs, outcome>>

\* property run `run` has the filter at `route` of arbitrary number
\* `generator` call its predicate, a closure of throwIfSuccessRateBelow, on
\* a candidate its source generated
Evaluate(generator, route, value, run) ==
    LET closure == ArbAt(call.returned, route).predicate
        scope == Scope(generator)
        counter == ClosureVariables(counters[scope][route], runs[run] = 0)
        after == SuccessRateCall(closure, counter, Accepts(closure.test, value))
    IN  /\ counters[scope][route].total < MaxTrials
        /\ after.successful <= MaxSuccesses
        /\ generator > 1 => counters[generator][route].total < MaxLater
        /\ run > 1 => runs[run] < MaxLater
        /\ counters' = [counters EXCEPT ![scope][route] = [successful |-> after.successful,
                                                           total |-> after.total]]
        /\ runs' = [runs EXCEPT ![run] = @ + 1]
        /\ outcome' = IF after.throws
                      THEN [kind |-> "threw", generator |-> generator, run |-> run,
                            route |-> route, isSuccess |-> FALSE,
                            error |-> "ZodFastCheckGenerationError",
                            path |-> ReportPath(closure.path), value |-> value]
                      ELSE [kind |-> "returned", generator |-> generator, run |-> run,
                            route |-> route, isSuccess |-> after.returns,
                            error |-> "", path |-> "", value |-> value]
        /\ UNCHANGED <<instances, derivations, call>>

Init ==
    /\ instances = <<EmptyMap>>            \* ZodFastCheck()
    /\ derivations = <<>>
    /\ call = NoCall
    /\ counters = <<>>
    /\ runs = NoRuns
    /\ outcome = NoOutcome

Next ==
    \/ \E c \in DOMAIN instances, r \in Registrations : Override(c, r[1], r[2])
    \/ \E c \in DOMAIN instances, schema \in InputSchemas : InputOf(c, schema)
    \/ \E c \in DOMAIN instances, schema \in OutputSchemas : OutputOf(c, schema)

Spec == Init /\ [][Next]_vars

\* the base instance compiles any schema and the arbitrary generates.  What
\* a call builds does not depend on the calls before it, so a behaviour
\* follows the arbitrary of one call.
NextBuild ==
    \/ call = NoCall /\ \E schema \in SchemaIds : InputOf(1, schema)
    \/ call = NoCall /\ \E schema \in SchemaIds : OutputOf(1, schema)
    \/ \E value \in (IF call = NoCall THEN {} ELSE Yields(call.returned)) : Draw(value)

SpecBuild == Init /\ [][NextBuild]_vars

\* the schemas whose filters are followed call by call: a refinement that
\* some candidates pass, and those of the tests that no candidate passes
MonitorSchemas ==
    {"nonNegIntRefined", "impossible", "impossiblePipeline", "pathNestedObjects", "pathArrays",
     "pathUnions", "pathDiscriminated", "pathRecord", "pathMapKeys", "pathMapValues",
     "pathFunction", "pathPromise", "pathOptional", "pathNullable", "pathDefault",
     "pathTransform", "pathSet", "never", "lazyInObject"}
MonitorOutputSchemas == {"impossible", "never"}

MonitoredRoutes == IF counters = <<>> THEN {} ELSE DOMAIN counters[1]

NextMonitor ==
    \/ call = NoCall /\ \E schema \in MonitorSchemas : InputOf(1, schema)
    \/ call = NoCall /\ \E schema \in MonitorOutputSchemas : OutputOf(1, schema)
    \/ \E route \in MonitoredRoutes :
           \E value \in Yields(ArbAt(call.returned, route).kids[1]) :
               Evaluate(1, route, value, 1)

SpecMonitor == Init /\ [][NextMonitor]_vars

\* two arbitraries built by the same call, used by two property runs whose
\* evaluations interleave in any order
RunSchemas == {"impossibleBoolean"}

NextRuns ==
    \/ call = NoCall /\ \E schema \in RunSchemas : InputOf(1, schema)
    \/ BuildAgain
    \/ \E generator \in DOMAIN counters, route \in MonitoredRoutes, run \in DOMAIN runs :
           \E value \in Yields(ArbAt(call.returned, route).kids[1]) :
               Evaluate(generator, route, value, run)

SpecRuns == Init /\ [][NextRuns]_vars

\* overrides for schemas that have no builder, and for a schema above one
SuppressRegistrations ==
    {<<"lazy", FcConstant(Str(<<"a">>))>>,
     <<"never", FcConstant(Null)>>,
     <<"intersection", FcLeaf("boolean")>>,
     <<"thirdParty", FcConstant(Sym(<<"a">>))>>,
     <<"intersectionArray", FcConstant(Arr(<<>>))>>}
SuppressSchemas ==
    {"lazy", "never", "intersection", "thirdParty", "lazyInObject", "neverInArray",
     "thirdPartyInMap", "intersectionArray", "intersectionDeep"}

NextSuppress ==
    \/ \E c \in DOMAIN instances, r \in SuppressRegistrations : Override(c, r[1], r[2])
    \/ \E c \in DOMAIN instances, schema \in SuppressSchemas : InputOf(c, schema)

SpecSuppress == Init /\ [][NextSuppress]_vars

\* overrides for the schema that outputOf is called on: integers, negative
\* ones too, for schemas of integers, and the override function of the tests
OutputRegistrations ==
    {<<"nonNegInt", FcInteger(-MaxSample, MaxSample)>>,
     <<"nonNegIntRefined", FcInteger(-MaxSample, MaxSample)>>,
     <<"intAsString", FcInteger(-MaxSample, MaxSample)>>,
     <<"numericString", Factory("numericStringFactory")>>}
OverriddenOutputSchemas == {"nonNegInt", "nonNegIntRefined", "intAsString", "numericString"}

NextOutput ==
    \/ \E c \in DOMAIN instances, r \in OutputRegistrations : Override(c, r[1], r[2])
    \/ \E c \in DOMAIN instances, schema \in OverriddenOutputSchemas : OutputOf(c, schema)
    \/ /\ call.op = "outputOf"
       /\ \E value \in Yields(call.returned) : Draw(value)

SpecOutput == Init /\ [][NextOutput]_vars


----------------------------------------------------------------------------
(* The override registry *)

IsOverrideCall == call.op = "override"
Receiver == instances[call.zfc]
Returned == instances[call.returned.instance]

\* C3: no public operation changes the overrides of an existing instance:
\* override() gives the new instance a copy of the receiver's entries plus
\* the new entry, inputOf() and outputOf() leave every Map as it is.
C3_ReceiverNeverMutated ==
    [][/\ \A c \in DOMAIN instances : c \in DOMAIN instances' /\ instances'[c] = instances[c]
       /\ call'.op = "override" =>
            LET new == instances'[call'.returned.instance]
                old == instances[call'.zfc]
            IN  /\ Len(instances') = Len(instances) + 1
                /\ DOMAIN new = DOMAIN old \cup {call'.schema}
                /\ \A s \in DOMAIN new : new[s] = IF s = call'.schema THEN call'.arbitrary ELSE old[s]
       /\ call'.op \in {"inputOf", "outputOf"} => instances' = instances]_vars

\* an override() whose receiver lacks the entry that the returned instance has
C3_Witness ==
    /\ IsOverrideCall
    /\ call.schema \notin DOMAIN Receiver
    /\ call.schema \in DOMAIN Returned
    /\ Len(instances) = 3

\* C4: a schema with a registered override that occurs inside the schema
\* given to inputOf is generated by the override's arbitrary: in
\* z.object({ ids: z.array(UUID) }) the element arbitrary of `ids` is the
\* arbitrary registered for UUID, not the one the string builder makes.
C4_NestedOverrideUsed ==
    (/\ call.op = "inputOf"
     /\ call.schema = "idsObject"
     /\ "uuid" \in DOMAIN Receiver)
    => /\ ~IsThrow(call.returned)
       /\ call.returned.k = "record"
       /\ call.returned.kids[1].k = "array"
       /\ call.returned.kids[1].kids[1] = Receiver["uuid"]

\* the override differs from what the builder of UUID returns
C4_Witness ==
    /\ call.op = "inputOf"
    /\ call.schema = "idsObject"
    /\ "uuid" \in DOMAIN Receiver
    /\ Receiver["uuid"] = FcConstant(Str(UuidSample))
    /\ call.returned.kids[1].kids[1] = FcConstant(Str(UuidSample))

\* C5: an override registered for one schema object is not used for another
\* schema object with an equal definition: z.string().uuid() constructed a
\* second time is generated by the string builder (fc.uuid()).
C5_IdentityOnly ==
    (/\ call.op = "inputOf"
     /\ call.schema = "uuidAgain"
     /\ "uuidAgain" \notin DOMAIN Receiver)
    => call.returned = FcLeaf("uuid")

C5_Witness ==
    /\ call.op = "inputOf"
    /\ call.schema = "uuidAgain"
    /\ Schemas["uuidAgain"] = Schemas["uuid"]
    /\ "uuid" \in DOMAIN Receiver
    /\ Receiver["uuid"] = FcConstant(Str(UuidSample))
    /\ call.returned = FcLeaf("uuid")

\* C6: registering an override again is idempotent and the last one wins:
\* the returned instance maps the schema to the arbitrary just given; if the
\* receiver already mapped it to that arbitrary the two have equal overrides;
\* and the receiver keeps the entry it had.
C6_LastWins ==
    /\ [](IsOverrideCall =>
            /\ MapGet(Returned, call.schema) = call.arbitrary
            /\ MapGet(Receiver, call.schema) = call.arbitrary => Returned = Receiver)
    /\ [][call'.op = "override" => instances'[call'.zfc] = instances[call'.zfc]]_vars

\* override(s, g1).override(s, g2) with g1 # g2
C6_Witness ==
    /\ IsOverrideCall
    /\ call.zfc = 2
    /\ call.schema \in DOMAIN Receiver
    /\ Receiver[call.schema] # call.arbitrary
    /\ Returned[call.schema] = call.arbitrary

\* C7: an override function is called with the instance inputOf runs on:
\* what it builds through that instance uses the instance's overrides, also
\* those registered after the function.
C7_FactoryGetsCurrentInstance ==
    (/\ call.op = "inputOf"
     /\ call.schema = "numericString"
     /\ MapGet(Receiver, "numericString") = Factory("numericStringFactory"))
    => call.returned =
           FcMap(IF "nonNegInt" \in DOMAIN Receiver THEN Receiver["nonNegInt"]
                 ELSE ZodNumber(Schemas["nonNegInt"]),
                 MapFn("String"))

\* the override of the schema the function resolves was registered on an
\* instance derived after the function was registered
C7_Witness ==
    /\ call.op = "inputOf"
    /\ call.schema = "numericString"
    /\ call.zfc = 3
    /\ MapGet(instances[2], "numericString") = Factory("numericStringFactory")
    /\ "nonNegInt" \notin DOMAIN instances[2]
    /\ MapGet(instances[3], "numericString") = Factory("numericStringFactory")
    /\ "nonNegInt" \in DOMAIN instances[3]
    /\ call.returned = FcMap(FcInteger(0, MaxSample), MapFn("String"))


----------------------------------------------------------------------------
(* The success-rate filter *)

Evaluated == outcome.kind \in {"returned", "threw"}
Counter == counters[outcome.generator][outcome.route]
Closure == ArbAt(call.returned, outcome.route).predicate

\* C8: a call of the filter's closure never throws while at most 1000
\* candidates were counted; from candidate 1001 on it throws exactly when,
\* the current candidate counted, successful / total is below 1% (exactly 1%
\* does not throw); a call that does not throw returns what the predicate
\* answers for the candidate.
C8_ThrowsExactlyBelowRate ==
    Evaluated =>
        /\ Counter.total <= 1000 => outcome.kind = "returned"
        /\ Counter.total >= 1001 =>
               (outcome.kind = "threw" <=> Counter.successful * 100 < Counter.total)
        /\ outcome.kind = "returned" => outcome.isSuccess = Accepts(Closure.test, outcome.value)
        /\ outcome.kind = "threw" => outcome.error = "ZodFastCheckGenerationError"

\* candidate 1100 with 11 accepted so far: the rate is exactly 1%
C8_Witness ==
    /\ outcome.kind = "returned"
    /\ Counter.total = 1100
    /\ Counter.successful = 11

ImpossibleSchemas == {"impossible", "impossiblePipeline"}

\* C9: for a refinement or a pipeline that no candidate passes, the filter
\* lets no value through and its call number 1001 throws
\* ZodFastCheckGenerationError, within 10 times the 1000 warm-up calls.
C9_ImpossibleThrowsAt1001 ==
    (call.schema \in ImpossibleSchemas /\ Evaluated) =>
        /\ Counter.successful = 0
        /\ outcome.kind = "returned" => ~outcome.isSuccess /\ Counter.total <= 1000
        /\ Counter.total = 1001 =>
               outcome.kind = "threw" /\ outcome.error = "ZodFastCheckGenerationError"
        /\ 1001 <= 10 * MIN_RUNS

C9_Witness ==
    /\ call.op = "inputOf"
    /\ call.schema = "impossible"
    /\ outcome.kind = "threw"
    /\ outcome.error = "ZodFastCheckGenerationError"
    /\ Counter = [successful |-> 0, total |-> 1001]

\* the paths the error messages are to show
ExpectedErrorPath ==
    [nonNegIntRefined |-> ".",
     impossible |-> ".",
     impossiblePipeline |-> ".",
     pathNestedObjects |-> ".foo.bar",
     pathArrays |-> ".items[*]",
     pathUnions |-> ".status",
     pathDiscriminated |-> ".a",
     pathRecord |-> ".scores[*]",
     pathMapKeys |-> ".scores.(key)",
     pathMapValues |-> ".scores.(value)",
     pathFunction |-> ".myFunction.(return type)",
     pathPromise |-> ".myPromise.(resolved type)",
     pathOptional |-> ".myOptional",
     pathNullable |-> ".myNullable",
     pathDefault |-> ".withDefault",
     pathTransform |-> ".withTransform",
     pathSet |-> ".p.(value)"]

\* C10: the path in a ZodFastCheckGenerationError from an arbitrary of
\* inputOf is the concatenation of the segments from the root schema to the
\* failing refinement: `.name` for an object property, `[*]` for an array
\* element and a record value, `.(key)` and `.(value)` for a map,
\* `.(return type)` for a function, `.(resolved type)` for a promise, nothing
\* for union, discriminated union, optional, nullable, default and effects;
\* the empty path shows as `.`.
C10_ErrorPath ==
    (call.op = "inputOf" /\ outcome.kind = "threw") =>
        outcome.path = ExpectedErrorPath[call.schema]

C10_Witness ==
    /\ call.op = "inputOf"
    /\ call.schema = "pathMapValues"
    /\ outcome.kind = "threw"
    /\ outcome.path = ".scores.(value)"

----------------------------------------------------------------------------
(* The values of the arbitraries *)

Drawn == outcome.kind = "drawn"

\* C1: every value an arbitrary of inputOf(schema) generates, no overrides
\* registered, is accepted by schema.safeParse
C1_InputsPassValidation ==
    (call.op = "inputOf" /\ Drawn) => safeParse(call.schema, outcome.value).success

\* C2: every value an arbitrary of outputOf(schema) generates is the data of
\* a successful safeParse of some input: no value whose validation fails and
\* no input that parsing would have changed
C2_OutputsAreParsedData ==
    (call.op = "outputOf" /\ Drawn) =>
        \E input \in Yields(inputOf(instances[call.zfc], call.schema)) \cup {outcome.value} :
            safeParse(call.schema, input) = OK(outcome.value)


----------------------------------------------------------------------------
(* Unsupported schemas *)

\* the kind and the path the messages are to show
ExpectedUnsupported ==
    [lazy |-> <<"Lazy", ".">>,
     never |-> <<"Never", ".">>,
     intersection |-> <<"Intersection", ".">>,
     thirdParty |-> <<"'SymbolSchema'", ".">>,
     lazyInObject |-> <<"Lazy", ".child">>,
     neverInArray |-> <<"Never", "[*]">>,
     thirdPartyInMap |-> <<"'SymbolSchema'", ".(value)">>,
     intersectionDeep |-> <<"Intersection", ".items[*]">>,
     intersectionArray |-> <<"Intersection", "[*]">>,
     neverInTuple |-> <<"Never", "[1]">>,
     lazyInUnion |-> <<"Lazy", ".">>,
     lazyBeforeNever |-> <<"Lazy", ".a">>]

\* C11: inputOf on a schema that holds, where no override covers it, a lazy,
\* intersection, never or third-party schema throws
\* ZodFastCheckUnsupportedSchemaError naming the kind (Lazy, Intersection,
\* Never or the quoted constructor name) and the path of that schema (`.` at
\* the root); no arbitrary is returned, so nothing is ever generated.
C11_UnsupportedSchemaError ==
    (call.op = "inputOf" /\ call.schema \in DOMAIN ExpectedUnsupported) =>
        /\ call.returned.k = "throw"
        /\ call.returned.error = "ZodFastCheckUnsupportedSchemaError"
        /\ call.returned.what = ExpectedUnsupported[call.schema][1]
        /\ call.returned.path = ExpectedUnsupported[call.schema][2]
        /\ outcome.kind = "none"

C11_Witness ==
    /\ call.op = "inputOf"
    /\ call.schema = "intersectionDeep"
    /\ call.returned.k = "throw"
    /\ call.returned.what = "Intersection"
    /\ call.returned.path = ".items[*]"


----------------------------------------------------------------------------
(* When the two errors are thrown *)

Built == call.op \in {"inputOf", "outputOf"}

\* C12: ZodFastCheckUnsupportedSchemaError is thrown only by inputOf and
\* outputOf while they build the arbitrary, ZodFastCheckGenerationError
\* never is: for a refinement no value passes, the call returns an arbitrary
\* and the error is thrown only when the filter evaluates candidates.
C12_ErrorPhases ==
    /\ [](/\ (Built /\ IsThrow(call.returned)) =>
                /\ call.returned.error = "ZodFastCheckUnsupportedSchemaError"
                /\ call.schema \in DOMAIN ExpectedUnsupported
          /\ (Built /\ call.schema \in DOMAIN ExpectedErrorPath) => ~IsThrow(call.returned)
          /\ outcome.kind = "threw" =>
                /\ outcome.error = "ZodFastCheckGenerationError"
                /\ ~IsThrow(call.returned)
                /\ Counter.total >= 1)
    /\ [][/\ call' # call => outcome'.kind = "none"
          /\ outcome'.kind = "threw" => call' = call]_vars

\* the build returned an arbitrary, the error came with a candidate
C12_Witness ==
    /\ call.op = "inputOf"
    /\ call.schema = "pathNestedObjects"
    /\ call.returned.k = "record"
    /\ outcome.kind = "threw"
    /\ outcome.error = "ZodFastCheckGenerationError"


----------------------------------------------------------------------------
(* outputOf and inputOf *)

ScalarTags ==
    {"ZodString", "ZodNumber", "ZodBigInt", "ZodBoolean", "ZodDate", "ZodUndefined", "ZodNull",
     "ZodLiteral", "ZodEnum", "ZodNativeEnum", "ZodAny", "ZodUnknown", "ZodVoid"}

InputArbitrary == inputOf(instances[call.zfc], call.schema)
ParsedData ==
    {safeParse(call.schema, input).data :
         input \in {candidate \in Yields(InputArbitrary) :
                        safeParse(call.schema, candidate).success}}

----------------------------------------------------------------------------
(* Schemas with a default *)

DefaultSchemas == {"withDefault", "stringWithDefault", "defaultSeven"}

\* C14: for a schema with a default, the arbitrary of inputOf generates
\* undefined and every value the arbitrary of the inner schema generates;
\* the arbitrary of outputOf never generates undefined: the input left out
\* shows in the output as the default value.
C14_DefaultInputAndOutput ==
    (call.schema \in DefaultSchemas /\ Built) =>
        LET def == Schemas[call.schema]
            inner == Yields(inputOf(instances[call.zfc], def.innerType))
        IN  /\ call.op = "inputOf" =>
                /\ Undefined \in Yields(call.returned)
                /\ inner \subseteq Yields(call.returned)
                /\ Yields(call.returned) \subseteq inner \cup {Undefined}
            /\ call.op = "outputOf" =>
                /\ Undefined \notin Yields(call.returned)
                /\ safeParse(call.schema, Undefined) = OK(def.defaultValue)
                /\ def.defaultValue \in Yields(call.returned)
                /\ Drawn => outcome.value # Undefined

\* the default value, which the inner arbitrary does not generate, is drawn
C14_Witness ==
    /\ call.op = "outputOf"
    /\ call.schema = "defaultSeven"
    /\ Num(7 * Unit) \notin Yields(inputOf(instances[call.zfc], "int"))
    /\ outcome.kind = "drawn"
    /\ outcome.value = Num(7 * Unit)



----------------------------------------------------------------------------
(* The counters of a filter *)

ZeroCounter == [successful |-> 0, total |-> 0]
Accepted == Accepts(Closure.test, outcome.value)

\* the step is one call of a filter's closure
IsEvaluation == runs' # runs /\ call' = call

\* C15: the counters of a filter are 0 and 0 when the arbitrary is built;
\* every call of the closure, one that throws included, adds exactly 1 to
\* total and adds 1 to successful exactly when the candidate was accepted;
\* nothing else changes them, so they never decrease and successful never
\* exceeds total.
C15_CounterInvariant ==
    /\ [](\A g \in DOMAIN counters : \A r \in DOMAIN counters[g] :
              /\ 0 <= counters[g][r].successful
              /\ counters[g][r].successful <= counters[g][r].total)
    /\ [][/\ call' # call =>
                \A g \in DOMAIN counters' : \A r \in DOMAIN counters'[g] :
                    counters'[g][r] = ZeroCounter
          /\ IsEvaluation =>
                LET g == outcome'.generator
                    r == outcome'.route
                    accepted == Accepts(ArbAt(call.returned, r).predicate.test, outcome'.value)
                IN  /\ outcome'.kind \in {"returned", "threw"}
                    /\ counters'[g][r].total = counters[g][r].total + 1
                    /\ counters'[g][r].successful =
                           counters[g][r].successful + (IF accepted THEN 1 ELSE 0)
                    /\ \A h \in DOMAIN counters : \A q \in DOMAIN counters[h] :
                           <<h, q>> # <<g, r>> => counters'[h][q] = counters[h][q]
          /\ (call' = call /\ ~IsEvaluation) =>
                \A g \in DOMAIN counters : counters'[g] = counters[g]]_vars

\* a call that throws although its candidate was accepted, both counted
C15_Witness ==
    /\ outcome.kind = "threw"
    /\ Accepted
    /\ Counter = [successful |-> 5, total |-> 1002]


TotalOf(route) ==
    IF Len(counters) = 1 THEN counters[1][route].total
    ELSE counters[1][route].total + counters[2][route].total

\* C16: the counters are initialised when the arbitrary is built and at no
\* other moment: an arbitrary used by a second property run, after the
\* first or interleaved with it, goes on from the counts reached so far.
\* Every call adds 1 to what the call before left, the first call of a run
\* included, so the candidates of all the runs add up in the counters.
C16_CountersOutliveRuns ==
    /\ [](\A route \in MonitoredRoutes :
              Cardinality(MonitoredRoutes) = 1 => TotalOf(route) = runs[1] + runs[2])
    /\ [][/\ IsEvaluation =>
                LET g == outcome'.generator
                    r == outcome'.route
                IN  /\ runs'[outcome'.run] = runs[outcome'.run] + 1
                    /\ counters'[g][r].total = counters[g][r].total + 1
                    /\ counters'[g][r].successful >= counters[g][r].successful
          /\ call' = call =>
                \A g \in DOMAIN counters : \A r \in DOMAIN counters[g] :
                    counters'[g][r].total >= counters[g][r].total]_vars

\* the first candidate of the second run is the 1001st of the arbitrary
\* and makes the closure throw
C16_Witness ==
    /\ outcome.kind = "threw"
    /\ outcome.run = 2
    /\ runs = <<1000, 1>>
    /\ outcome.generator = 1
    /\ Counter.total = 1001

\* C17: two arbitraries built by separate calls have counters of their own,
\* although schema and instance are the same: a call of a closure of one
\* changes the counters of that one only, building the second leaves the
\* first's as they are, and a closure throws on the count of its own
\* arbitrary, whatever the other has reached.
C17_SeparateBuildsSeparateCounters ==
    /\ [](outcome.kind = "threw" => Counter.total > MIN_RUNS)
    /\ [][/\ IsEvaluation =>
                LET g == outcome'.generator
                    r == outcome'.route
                IN  /\ counters'[g][r].total = counters[g][r].total + 1
                    /\ \A h \in DOMAIN counters : h # g => counters'[h] = counters[h]
          /\ Len(counters') > Len(counters) /\ call' = call =>
                /\ counters'[1] = counters[1]
                /\ \A r \in DOMAIN counters'[2] : counters'[2][r] = ZeroCounter]_vars

\* the first arbitrary has thrown at its 1001st candidate, the second is at
\* its second candidate and returns
C17_Witness ==
    /\ Len(counters) = 2
    /\ counters[1][<<>>].total = 1001
    /\ outcome.generator = 2
    /\ outcome.kind = "returned"
    /\ Counter.total = 2


\* C18: when at most 9 of the first 1000 candidates of a filter were
\* accepted, the call on candidate 1001 throws, whether candidate 1001 is
\* accepted or not: at most 10 of 1001 is below 1%.
C18_Throws1001AfterFewSuccesses ==
    (Evaluated /\ Counter.total = 1001
        /\ Counter.successful - (IF Accepted THEN 1 ELSE 0) <= 9) =>
            outcome.kind = "threw"

\* 9 of 1000 accepted, candidate 1001 accepted too, and the call throws
C18_Witness ==
    /\ outcome.kind = "threw"
    /\ Accepted
    /\ Counter = [successful |-> 10, total |-> 1001]


\* the step calls the closure that threw in the call before
FollowsThrow ==
    /\ IsEvaluation
    /\ outcome.kind = "threw"
    /\ outcome'.generator = outcome.generator
    /\ outcome'.route = outcome.route

\* C19, as the specification states it: once a call of a filter's closure
\* has thrown, the next call of the same closure throws as well, whatever
\* its candidate.
C19_OnceRaisedAlwaysRaised ==
    [][FollowsThrow => outcome'.kind = "threw"]_vars

\* C19, as the code behaves: the error is not latched.  The call after one
\* that threw decides on the counters as any other call does: it throws
\* exactly when successful / total is still below 1%, so it throws again
\* when its candidate is rejected and returns when an accepted candidate
\* brings the rate back to 1%.
C19_RaisedAgainWhileBelowRate ==
    [][FollowsThrow =>
          LET after == counters'[outcome'.generator][outcome'.route]
              accepted == Accepts(ArbAt(call.returned, outcome'.route).predicate.test,
                                  outcome'.value)
          IN  /\ outcome'.kind = "threw" <=> after.successful * 100 < after.total
              /\ ~accepted => outcome'.kind = "threw"
              /\ outcome'.kind = "returned" => accepted /\ outcome'.isSuccess]_vars

\* call 1001 threw at 10 successes; call 1002 accepts its candidate and
\* returns it
C19_Witness ==
    /\ outcome.kind = "returned"
    /\ outcome.isSuccess
    /\ Counter = [successful |-> 11, total |-> 1002]



----------------------------------------------------------------------------
(* Instances derived from a shared base *)

\* the instance that override() call number n returned
Derived(n) == instances[n + 1]

\* what the instance of call n must resolve `schema` to, from the call alone:
\* its own override for its own schema, what the base had for any other
ExpectedOverride(n, schema) ==
    LET d == derivations[n]
    IN  IF schema = d.schema THEN d.arbitrary ELSE MapGet(d.had, schema)

\* C20: instances derived from a shared base are independent.  For two
\* override() calls on the same base, of schemas a and b, whatever calls
\* are made before, between and after them: neither derived instance
\* resolves the other's schema to the other's override (it resolves it as
\* the base did when it was derived), the base resolves both as it did
\* before, and each derived instance resolves every schema the base had,
\* its own to its own override.  inputOf on a derived instance builds from
\* exactly these overrides.
C20_DerivedInstancesIndependent ==
    /\ Len(instances) = Len(derivations) + 1
    /\ \A n \in DOMAIN derivations :
           LET d == derivations[n]
           IN  /\ instances[d.base] = d.had
               /\ DOMAIN Derived(n) = DOMAIN d.had \cup {d.schema}
               /\ \A schema \in DOMAIN Schemas :
                      MapGet(Derived(n), schema) = ExpectedOverride(n, schema)
               /\ (call.op = "inputOf" /\ call.zfc = n + 1) =>
                      call.returned = inputOf(MapSet(d.had, d.schema, d.arbitrary), call.schema)
    /\ \A n, m \in DOMAIN derivations :
           LET a == derivations[n]
               b == derivations[m]
           IN  (n # m /\ a.base = b.base /\ a.schema # b.schema) =>
                   /\ MapGet(Derived(n), b.schema) = MapGet(a.had, b.schema)
                   /\ b.schema \notin DOMAIN a.had =>
                          findOverride(Derived(n), b.schema) = Nil
                   /\ findOverride(instances[a.base], a.schema) = findOverride(a.had, a.schema)
                   /\ findOverride(instances[a.base], b.schema) = findOverride(a.had, b.schema)

\* two instances derived from the base instance, one overriding UUID and one
\* overriding intAsString; inputOf(intAsString) on the first builds the
\* string arbitrary, not the other's integers
C20_Witness ==
    /\ Len(derivations) = 2
    /\ derivations[1].base = 1 /\ derivations[1].schema = "uuid"
    /\ derivations[2].base = 1 /\ derivations[2].schema = "intAsString"
    /\ call.op = "inputOf" /\ call.zfc = 2 /\ call.schema = "intAsString"
    /\ call.returned # derivations[2].arbitrary
    /\ call.returned = inputOf(EmptyMap, "intAsString")



----------------------------------------------------------------------------
(* Refinements, effects and pipelines *)

\* the schema a refinement / effect wraps, the first stage of a pipeline
PreEffectSchema(def) == IF TypeNameOf(def) = "ZodEffects" THEN def.schema ELSE def.in

\* the filter nodes that the ZodEffects and ZodPipeline builders made
EffectFilters(arb) ==
    {route \in Routes(arb) :
        LET node == ArbAt(arb, route)
        IN  /\ node.k = "filter"
            /\ node.predicate.test.by = "safeParse"
            /\ TypeNameOf(Schemas[node.predicate.test.schema]) \in {"ZodEffects", "ZodPipeline"}}

\* C21: for a refinement / effect or a pipeline, inputOf builds the
\* arbitrary of the wrapped schema, of the first stage for a pipeline, at the
\* same path, and filters it with a 1% closure whose predicate is safeParse
\* of the whole schema.  So no value that a later stage rejects is
\* generated, although the inner schema accepts it.
C21_FilteredByFullSchema ==
    (call.op = "inputOf" /\ ~IsThrow(call.returned)) =>
        /\ \A route \in EffectFilters(call.returned) :
               LET node == ArbAt(call.returned, route)
                   outer == node.predicate.test.schema
               IN  /\ node.predicate =
                          throwIfSuccessRateBelow(RATE_PERCENT, SchemaAccepts(outer),
                                                  node.predicate.path)
                   /\ node.kids[1] = inputWithPath(instances[call.zfc],
                                                   PreEffectSchema(Schemas[outer]),
                                                   node.predicate.path)
                   /\ \A value \in Yields(node) : safeParse(outer, value).success
        /\ TypeNameOf(Schemas[call.schema]) \in {"ZodEffects", "ZodPipeline"} =>
               /\ <<>> \in EffectFilters(call.returned)
               /\ call.returned.predicate.test.schema = call.schema
               /\ call.returned.predicate.path = ""
               /\ Drawn => safeParse(call.schema, outcome.value).success

\* a pipeline whose first stage generates a string that the second stage
\* rejects, and a valid string generated
C21_Witness ==
    /\ call.op = "inputOf" /\ call.schema = "stringToNumberPipeline"
    /\ \E value \in Yields(call.returned.kids[1]) :
           /\ safeParse("stringToLength", value).success
           /\ ~safeParse("stringToNumberPipeline", value).success
    /\ Drawn



----------------------------------------------------------------------------
(* Discriminated unions *)

DiscriminatedUnions == {id \in SchemaIds : TypeNameOf(Schemas[id]) = "ZodDiscriminatedUnion"}

\* the schemas of the members whose arbitraries are the kids of a oneof
\* built for union `def` at `path`, in the order of the kids
MembersBuilt(zfc, def, arb, path) ==
    [i \in 1..Len(arb.kids) |->
        CHOOSE j \in 1..Len(def.optionsMap) :
            arb.kids[i] = inputWithPath(zfc, def.optionsMap[j][2], path)]

\* C22: the arbitraries of the members of a discriminated union are handed
\* to fc.oneof in ascending order of their discriminators, whatever the
\* order of declaration, each built at the path of the union; two unions
\* declaring the same members in different orders give the same arbitrary.
C22_MembersInSortedOrder ==
    (call.op = "inputOf" /\ call.schema \in DiscriminatedUnions /\ ~IsThrow(call.returned)) =>
        LET zfc == instances[call.zfc]
            def == Schemas[call.schema]
            n == Len(def.optionsMap)
            nested == arbitraryBuilders(zfc, call.schema, def, ".u")
        IN  /\ call.returned.k = "oneof"
            /\ Len(call.returned.kids) = n
            /\ \A i \in 1..n : \E j \in 1..n :
                   call.returned.kids[i] = inputWithPath(zfc, def.optionsMap[j][2], "")
            /\ \A i \in 1..n : \E j \in 1..n :
                   nested.kids[i] = inputWithPath(zfc, def.optionsMap[j][2], ".u")
            /\ \A i, j \in 1..n :
                   i < j =>
                       CodeUnit[def.optionsMap[MembersBuilt(zfc, def, call.returned, "")[i]][1]]
                         < CodeUnit[def.optionsMap[MembersBuilt(zfc, def, call.returned, "")[j]][1]]
            /\ \A other \in DiscriminatedUnions :
                   {Schemas[other].optionsMap[i] : i \in 1..Len(Schemas[other].optionsMap)}
                       = {def.optionsMap[i] : i \in 1..n}
                   => inputOf(zfc, other) = call.returned

\* the union that declares b before a: the arbitrary of a comes first, and
\* it is the arbitrary of the union that declares a before b
C22_Witness ==
    /\ call.op = "inputOf" /\ call.schema = "discriminatedUnion"
    /\ Schemas[call.schema].optionsMap[1][1] = "b"
    /\ call.returned.kids[1] = inputOf(instances[call.zfc], "variantA")
    /\ call.returned = inputOf(instances[call.zfc], "discriminatedUnionAB")
    /\ Schemas["discriminatedUnionAB"] # Schemas["discriminatedUnion"]
    /\ Drawn



----------------------------------------------------------------------------
(* Bounds of strings, bigints, numbers and collections *)

\* the string schemas whose checks the ZodString builder all handles itself
LengthKinds == {"min", "max", "length"}
PlainStringSchemas ==
    {id \in SchemaIds :
        /\ TypeNameOf(Schemas[id]) = "ZodString"
        /\ \A i \in 1..Len(Schemas[id].checks) :
               Schemas[id].checks[i].kind \in LengthKinds \cup {"startsWith", "endsWith", "trim"}}

LengthWithin(checks, n) ==
    \A i \in 1..Len(checks) :
        /\ checks[i].kind = "min" => n >= checks[i].value
        /\ checks[i].kind = "max" => n <= checks[i].value
        /\ checks[i].kind = "length" => n = checks[i].value

\* C23, as the specification states it: every string generated for a string
\* schema with only length and startsWith / endsWith checks has a length
\* within the declared min / max / length, the prefix and suffix counted.
C23_LengthBoundsHonoured ==
    (call.op = "inputOf" /\ call.schema \in PlainStringSchemas /\ Drawn) =>
        /\ outcome.value.t = "string"
        /\ LengthWithin(Schemas[call.schema].checks, Len(outcome.value.v))


BigIntSchemas == {id \in SchemaIds : TypeNameOf(Schemas[id]) = "ZodBigInt"}

\* the bounds a bigint schema declares, an exclusive one tightened by one
DeclaredBigIntBounds(checks, kind) ==
    {IF checks[i].inclusive THEN checks[i].value
     ELSE IF kind = "min" THEN checks[i].value + 1 ELSE checks[i].value - 1 :
        i \in {j \in 1..Len(checks) : checks[j].kind = kind}}

\* C24, as the specification states it: fc.bigInt gets the greatest declared
\* lower bound as min and the least declared upper bound as max, so every
\* bigint generated passes all the min / max checks of the schema.
C24_BigIntTightestBounds ==
    (call.op = "inputOf" /\ call.schema \in BigIntSchemas) =>
        LET checks == Schemas[call.schema].checks
            lower == DeclaredBigIntBounds(checks, "min")
            upper == DeclaredBigIntBounds(checks, "max")
        IN  /\ call.returned.k = "bigInt"
            /\ lower # {} =>
                   call.returned.min = Some(CHOOSE b \in lower : \A c \in lower : c <= b)
            /\ upper # {} =>
                   call.returned.max = Some(CHOOSE b \in upper : \A c \in upper : b <= c)
            /\ Drawn => \A i \in 1..Len(checks) : BigIntCheckOk(checks[i], outcome.value)


\* the number schemas with an int or a multipleOf check, all the factors
\* positive integers
IsStepCheck(check) == check.kind \in {"int", "multipleOf"}
SteppedNumberSchemas ==
    {id \in SchemaIds :
        /\ TypeNameOf(Schemas[id]) = "ZodNumber"
        /\ \E i \in 1..Len(Schemas[id].checks) : IsStepCheck(Schemas[id].checks[i])
        /\ \A i \in 1..Len(Schemas[id].checks) :
               Schemas[id].checks[i].kind = "multipleOf" =>
                   /\ Schemas[id].checks[i].value > 0
                   /\ Schemas[id].checks[i].value % Unit = 0}

\* the product of the multipleOf values of checks i.., as an integer
RECURSIVE DeclaredFactor(_, _)
DeclaredFactor(checks, i) ==
    IF i > Len(checks) THEN 1
    ELSE (IF checks[i].kind = "multipleOf" THEN checks[i].value \div Unit ELSE 1)
             * DeclaredFactor(checks, i + 1)

AllNumberChecksOk(checks, value) == \A i \in 1..Len(checks) : NumberCheckOk(checks[i], value)

\* C25: for a number schema with int and / or multipleOf checks whose
\* factors are positive integers, the values generated are the multiples
\* k * f of the product f of the declared factors (1 for int alone) that
\* lie within the declared min / max, an exclusive bound excluded: every
\* value generated passes every check of the schema, and every multiple of
\* f that passes them is generated (k within the engine's sample).
C25_MultiplesWithinBounds ==
    (call.op = "inputOf" /\ call.schema \in SteppedNumberSchemas) =>
        LET checks == Schemas[call.schema].checks
            f == DeclaredFactor(checks, 1)
            multiples == {Num(k * f * Unit) : k \in IntSample}
        IN  /\ call.returned.k = "map"
            /\ call.returned.f = MapFnNum("times", f * Unit)
            /\ call.returned.kids[1].k = "integer"
            /\ Yields(call.returned) \subseteq multiples
            /\ \A value \in multiples :
                   value \in Yields(call.returned) <=> AllNumberChecksOk(checks, value)
            /\ Drawn =>
                   /\ outcome.value.v % (f * Unit) = 0
                   /\ AllNumberChecksOk(checks, outcome.value)

\* multiples of 2 in (-2, 2): 0 is generated, the excluded bounds -2 and 2
\* are not
C25_Witness ==
    /\ call.op = "inputOf" /\ call.schema = "multipleOfExclusive"
    /\ Yields(call.returned) = {Num(0)}
    /\ outcome.kind = "drawn" /\ outcome.value = Num(0)


\* C26, as the specification states it: the members of a set are shown as
\* `[*]`, like the elements of an array, so an unsatisfiable refinement that
\* is the member schema of the set at property p is reported at `.p[*]`.
C26_SetMemberPathIsStar ==
    (call.op = "inputOf" /\ call.schema = "pathSet" /\ outcome.kind = "threw") =>
        outcome.path = ".p[*]"

\* C26, as the code behaves: only the elements of an array (and the values
\* of a record) are shown as `[*]`; the members of a set are shown as
\* `.(value)`, so the refinement in the set at property p is reported at
\* `.p.(value)`.
C26_SetMemberPathIsValue ==
    (call.op = "inputOf" /\ outcome.kind = "threw") =>
        /\ call.schema = "pathSet" => outcome.path = ".p.(value)"
        /\ call.schema = "pathArrays" => outcome.path = ".items[*]"

\* the refinement inside the set has thrown
C26_Witness ==
    /\ call.op = "inputOf" /\ call.schema = "pathSet"
    /\ outcome.kind = "threw"
    /\ outcome.error = "ZodFastCheckGenerationError"
    /\ outcome.path = ".p.(value)"
    /\ ArbAt(call.returned, <<1, 1>>).k = "uniqueArray"



----------------------------------------------------------------------------
(* Overrides for schemas that have no builder *)

\* the schemas from the root down to the schema that has no builder
DownToUnsupported ==
    [lazy |-> <<"lazy">>,
     never |-> <<"never">>,
     intersection |-> <<"intersection">>,
     thirdParty |-> <<"thirdParty">>,
     lazyInObject |-> <<"lazyInObject", "lazy">>,
     neverInArray |-> <<"neverInArray", "never">>,
     thirdPartyInMap |-> <<"thirdPartyInMap", "thirdParty">>,
     intersectionArray |-> <<"intersectionArray", "intersection">>,
     intersectionDeep |-> <<"intersectionDeep", "intersectionArray", "intersection">>]

\* the instance has an override for the unsupported schema or for a schema
\* above it
Covered(zfc, schema) ==
    \E i \in 1..Len(DownToUnsupported[schema]) : DownToUnsupported[schema][i] \in DOMAIN zfc

\* C27: inputOf on a lazy, intersection, never or third-party schema, or on a
\* schema that holds one, returns an arbitrary when the instance has an
\* override for that schema or for a schema above it, the lookup coming
\* before the builders: the override itself at the root.  On an instance
\* without such an override the same call throws
\* ZodFastCheckUnsupportedSchemaError.
C27_OverrideSuppressesUnsupported ==
    (call.op = "inputOf" /\ call.schema \in DOMAIN DownToUnsupported) =>
        LET zfc == instances[call.zfc]
        IN  /\ Covered(zfc, call.schema) <=> ~IsThrow(call.returned)
            /\ call.schema \in DOMAIN zfc => call.returned = zfc[call.schema]
            /\ IsThrow(call.returned) =>
                   /\ call.returned.error = "ZodFastCheckUnsupportedSchemaError"
                   /\ call.returned.what = ExpectedUnsupported[call.schema][1]
                   /\ call.returned.path = ExpectedUnsupported[call.schema][2]
            /\ IsThrow(inputOf(instances[1], call.schema))

\* an instance with an override for the lazy schema builds the object that
\* holds it; the base instance throws for the same schema
C27_Witness ==
    /\ call.op = "inputOf" /\ call.schema = "lazyInObject"
    /\ "lazy" \in DOMAIN instances[call.zfc]
    /\ call.returned.k = "record"
    /\ call.returned.kids[1] = FcConstant(Str(<<"a">>))
    /\ IsThrow(inputOf(instances[1], "lazyInObject"))


\* the array and set schemas (a non-empty array has a minimum of its own)
CollectionSchemas ==
    {id \in SchemaIds :
        /\ TypeNameOf(Schemas[id]) \in {"ZodArray", "ZodSet"}
        /\ ConstructorName(Schemas[id]) # "ZodNonEmptyArray"}

DeclaredMin(def) == IF TypeNameOf(def) = "ZodArray" THEN def.minLength ELSE def.minSize
DeclaredMax(def) == IF TypeNameOf(def) = "ZodArray" THEN def.maxLength ELSE def.maxSize
OrElse(declared, default) == IF declared = Nil THEN default ELSE declared.value

\* C28: fc.array / fc.uniqueArray get the length range [declared minimum or
\* 0, min(declared maximum or 10, 10)] for an array or a set schema.  So no
\* collection generated has more than 10 elements, and for a declared
\* minimum above 10 the lower bound handed over exceeds the upper bound: a
\* range no length satisfies, not one that satisfies the schema.
C28_CollectionLengthRange ==
    (call.op = "inputOf" /\ call.schema \in CollectionSchemas /\ ~IsThrow(call.returned)) =>
        LET def == Schemas[call.schema]
            node == IF TypeNameOf(def) = "ZodArray" THEN call.returned
                    ELSE call.returned.kids[1]
            lower == OrElse(DeclaredMin(def), 0)
            upper == OrElse(DeclaredMax(def), 10)
        IN  /\ node.k = IF TypeNameOf(def) = "ZodArray" THEN "array" ELSE "uniqueArray"
            /\ node.minLength = lower
            /\ node.maxLength = IF upper < 10 THEN upper ELSE 10
            /\ node.maxLength <= 10
            /\ \A value \in Yields(node) : Len(value.v) <= 10
            /\ lower > 10 =>
                   /\ node.minLength > node.maxLength
                   /\ Yields(call.returned) = {}
                   /\ ~Drawn

\* an array schema with at least 11 elements: the range handed over is
\* [11, 10]
C28_Witness ==
    /\ call.op = "inputOf" /\ call.schema = "arrayMinEleven"
    /\ call.returned.k = "array"
    /\ call.returned.minLength = 11
    /\ call.returned.maxLength = 10



----------------------------------------------------------------------------
(* Format checks of strings *)

FormatKinds == {"cuid", "uuid", "email", "url", "datetime"}

\* the arbitrary the ZodString builder returns on meeting a format check
FormatArbitrary ==
    [cuid |-> createCuidArb,
     uuid |-> FcLeaf("uuid"),
     email |-> FcFilter(FcLeaf("emailAddress"), PlainPredicate(EmailCharsOnly)),
     url |-> FcLeaf("webUrl"),
     datetime |-> createDatetimeStringArb]

FormatChecks(checks) == {i \in 1..Len(checks) : checks[i].kind \in FormatKinds}
FormattedStringSchemas ==
    {id \in SchemaIds :
        TypeNameOf(Schemas[id]) = "ZodString" /\ FormatChecks(Schemas[id].checks) # {}}

----------------------------------------------------------------------------
(* outputOf on a schema that has an override *)

\* C30: outputOf on a schema that has an override depends on the type of
\* the schema.  For a type that is not scalar the values of the override
\* go through safeParse of the schema, and the data of the successes is what
\* is generated.  For a scalar type the arbitrary of the override is
\* returned as it is: its values are generated without ever being validated
\* by the schema.
C30_OutputOfOverriddenSchema ==
    (call.op = "outputOf" /\ call.schema \in DOMAIN instances[call.zfc]) =>
        LET zfc == instances[call.zfc]
            registered == findOverride(zfc, call.schema)
            parsed == {safeParse(call.schema, value) : value \in Yields(registered)}
        IN  IF TypeNameOf(Schemas[call.schema]) \in ScalarTags
            THEN /\ call.returned = registered
                 /\ Yields(call.returned) = Yields(registered)
                 /\ DOMAIN counters[1] = MonitorRoutes(registered)
            ELSE /\ call.returned.k = "map" /\ call.returned.f.name = "data"
                 /\ call.returned.kids[1].k = "filter"
                 /\ call.returned.kids[1].kids[1] =
                        FcMap(registered, MapFnSchema("safeParse", call.schema))
                 /\ Yields(call.returned) = {result.data : result \in {p \in parsed : p.success}}
                 /\ Drawn => \E value \in Yields(registered) :
                                 safeParse(call.schema, value) = OK(outcome.value)

\* the registered of a schema of non-negative integers generates -1, and
\* outputOf generates it too
C30_Witness ==
    /\ call.op = "outputOf" /\ call.schema = "nonNegInt"
    /\ "nonNegInt" \in DOMAIN instances[call.zfc]
    /\ outcome.kind = "drawn" /\ outcome.value = Num(-Unit)
    /\ ~safeParse("nonNegInt", outcome.value).success
    /\ \E value \in Yields(FcInteger(-MaxSample, MaxSample)) :
           ~safeParse("nonNegIntRefined", value).success

====
